---------------------------- MODULE Spec2Model ----------------------------
(***************************************************************************)
(* Verification model of the openWakeWord-cpp streaming pipeline:          *)
(* the ThreadSafeBuffer hand-off channel, the RingBuffer, the mel,         *)
(* embedding and detector stage workers, the activation state machine of   *)
(* WakeWordDetector::processPrediction and Pipeline start/stop.            *)
(*                                                                         *)
(* A std::vector<float> is written as a sequence of runs <<lo, hi>>, each  *)
(* standing for the consecutive values lo, lo+1, ..., hi-1.  The encoding  *)
(* is lossless and kept in normal form (adjacent runs that continue each   *)
(* other are merged), so two vectors are equal iff their encodings are.    *)
(* Stream elements carry their position in the stream as their value, so   *)
(* loss, duplication and reordering all change the encoding.               *)
(***************************************************************************)
EXTENDS Integers, Sequences, FiniteSets, TLC

(***************************************************************************)
(* Vectors of scalars (run encoding)                                       *)
(***************************************************************************)
RECURSIVE VLen(_)
VLen(v) ==
    IF v = <<>> THEN 0 ELSE (v[1][2] - v[1][1]) + VLen(Tail(v))

VRun(lo, n) ==
    IF n <= 0 THEN <<>> ELSE << <<lo, lo + n>> >>

VCat(a, b) ==
    IF a = <<>> THEN b
    ELSE IF b = <<>> THEN a
    ELSE LET la == a[Len(a)]
             fb == b[1]
         IN  IF la[2] = fb[1]
             THEN SubSeq(a, 1, Len(a) - 1) \o << <<la[1], fb[2]>> >> \o Tail(b)
             ELSE a \o b

RECURSIVE VTake(_, _)
VTake(v, n) ==
    IF n <= 0 \/ v = <<>> THEN <<>>
    ELSE LET r == v[1]
             l == r[2] - r[1]
         IN  IF l <= n THEN VCat(<<r>>, VTake(Tail(v), n - l))
             ELSE << <<r[1], r[1] + n>> >>

RECURSIVE VDrop(_, _)
VDrop(v, n) ==
    IF n <= 0 \/ v = <<>> THEN v
    ELSE LET r == v[1]
             l == r[2] - r[1]
         IN  IF l <= n THEN VDrop(Tail(v), n - l)
             ELSE << <<r[1] + n, r[2]>> >> \o Tail(v)

VSub(v, from, count) == VTake(VDrop(v, from), count)

VFirst(v) == v[1][1]

Min(a, b) == IF a <= b THEN a ELSE b
Max(a, b) == IF a >= b THEN a ELSE b

(***************************************************************************)
(* ThreadSafeBuffer<T>: buffer_, ready_, exhausted_, and the set of        *)
(* threads that sleep in cv_.wait.  Every member function runs under       *)
(* mutex_, so each is one atomic step; a thread that finds the wait        *)
(* predicate false joins `waiting` and can continue only after a           *)
(* notify_one picked it (or a spurious wake-up) removed it again.          *)
(***************************************************************************)
TSB_New == [buffer |-> <<>>, ready |-> FALSE, exhausted |-> FALSE, waiting |-> {}]

\* cv_.notify_one(): wakes one of the sleeping threads, if there is one
TSB_NotifyOne_Nobody(b) == {b}

TSB_NotifyOne(b) ==
    IF b.waiting = {} THEN {b}
    ELSE {[b EXCEPT !.waiting = @ \ {w}] : w \in b.waiting}

\* push(data): the state after the insert, before the notify
TSB_PushLostData(b, data) == [b EXCEPT !.buffer = data, !.ready = TRUE]

TSB_Push(b, data) == [b EXCEPT !.buffer = VCat(@, data), !.ready = TRUE]

\* the wait predicate of pull
TSB_CanPull(b) == b.ready \/ b.exhausted

\* pull(0) once the wait predicate holds: the returned batch
TSB_PullResult(b) ==
    IF b.exhausted /\ b.buffer = <<>> THEN <<>> ELSE b.buffer

\* pull(0) once the wait predicate holds: the buffer afterwards
TSB_PullState_KeepsBuffer(b) ==
    IF b.exhausted /\ b.buffer = <<>> THEN b
    ELSE [b EXCEPT !.ready = IF b.exhausted THEN b.ready ELSE FALSE]

TSB_PullState(b) ==
    IF b.exhausted /\ b.buffer = <<>> THEN b
    ELSE [b EXCEPT !.buffer = <<>>,
                   !.ready = IF b.exhausted THEN b.ready ELSE FALSE]

\* setExhausted(exhausted): the state before the notify
TSB_SetExhausted(b, e) == [b EXCEPT !.exhausted = e, !.ready = TRUE]

TSB_IsExhausted(b) == b.exhausted /\ b.buffer = <<>>

\* cv_.wait with a false predicate: the caller goes to sleep
TSB_Sleep(b, t) == [b EXCEPT !.waiting = @ \cup {t}]


(***************************************************************************)
(* Program constants                                                       *)
(***************************************************************************)
CHUNK_SAMPLES == 1280
NUM_MELS == 32
EMBEDDING_WINDOW_SIZE == 76
EMBEDDING_STEP_SIZE == 8
EMBEDDING_FEATURES == 96
WAKEWORD_FEATURES == 16
\* MelSpectrogramProcessor's ring holds 16 chunks
MelRingChunks == 16
\* SpeechEmbeddingProcessor's ring holds 2 windows of mels
EmbRingWindows == 2
\* MelSpectrogramModel::frameSize_ = 4 * CHUNK_SAMPLES, and nothing sets it
MelModelStepFrames == 4
\* mel frames the mel model returns per 80 ms chunk
MelFramesPerChunk == 5

(***************************************************************************)
(* RingBuffer<T>: buffer_ (the storage, capacity_ slots), write_pos_,      *)
(* read_pos_, size_.  The slots of a new buffer are value-initialised;     *)
(* they are labelled -capacity .. -1 here so that a read of a slot that    *)
(* was never written is told apart from stream data.                       *)
(***************************************************************************)
RB_New(capacity) ==
    [buffer |-> VRun(0 - capacity, capacity), capacity |-> capacity,
     write_pos |-> 0, read_pos |-> 0, size |-> 0]

\* std::copy(data, data + n, buffer_.data() + pos)
RB_Store(buffer, pos, data) ==
    VCat(VCat(VTake(buffer, pos), data), VDrop(buffer, pos + VLen(data)))

RB_Available(rb) == rb.capacity - rb.size

\* push(data, count) throws std::overflow_error
RB_PushOverflows(rb, data) == VLen(data) > RB_Available(rb)

\* push(data, count) when it does not throw
RB_Push(rb, data) ==
    LET count       == VLen(data)
        first_chunk == Min(count, rb.capacity - rb.write_pos)
        stored1     == RB_Store(rb.buffer, rb.write_pos, VTake(data, first_chunk))
        stored2     == IF count > first_chunk
                       THEN RB_Store(stored1, 0, VDrop(data, first_chunk))
                       ELSE stored1
    IN  [rb EXCEPT !.buffer = stored2,
                   !.write_pos = (rb.write_pos + count) % rb.capacity,
                   !.size = rb.size + count]

\* std::copy out of buffer_ without the wrap-around to its start
RB_Load_NoWrap(rb, pos, count) == VSub(rb.buffer, pos, count)

\* the count values copied out starting at slot pos, wrapping at capacity_
RB_Load(rb, pos, count) ==
    LET first_chunk == Min(count, rb.capacity - pos)
    IN  VCat(VSub(rb.buffer, pos, first_chunk),
             IF count > first_chunk THEN VTake(rb.buffer, count - first_chunk)
             ELSE <<>>)

\* pop(output, count): [ok, output, rb]; a failing pop has resized output only
RB_Pop(rb, output, count) ==
    IF count > rb.size
    THEN [ok |-> FALSE,
          output |-> VCat(VTake(output, count),
                          VRun(0 - count, count - VLen(output))),
          rb |-> rb]
    ELSE [ok |-> TRUE,
          output |-> RB_Load(rb, rb.read_pos, count),
          rb |-> [rb EXCEPT !.read_pos = (rb.read_pos + count) % rb.capacity,
                            !.size = rb.size - count]]

\* size_t arithmetic wraps at 2^w.  The width is scaled down to SizeBits
\* bits; every size of the program is far below SIZE_MAX at either width.
SizeBits == 16
SIZE_MAX == 2 ^ SizeBits - 1
SizeT(n) == n % (SIZE_MAX + 1)

\* peek(output, count, offset): [ok, output]; offset + count and
\* read_pos_ + offset are size_t sums
RB_Peek(rb, output, count, offset) ==
    IF SizeT(offset + count) > rb.size
    THEN [ok |-> FALSE, output |-> output]
    ELSE [ok |-> TRUE,
          output |-> RB_Load(rb, SizeT(rb.read_pos + offset) % rb.capacity,
                             count)]

\* skip(count) throws std::underflow_error
RB_SkipUnderflows(rb, count) == count > rb.size

\* skip(count) when it does not throw
RB_Skip_NoWrap(rb, count) ==
    [rb EXCEPT !.read_pos = rb.read_pos + count, !.size = rb.size - count]

RB_Skip(rb, count) ==
    [rb EXCEPT !.read_pos = (rb.read_pos + count) % rb.capacity,
               !.size = rb.size - count]

\* clear()
RB_Clear(rb) == [rb EXCEPT !.read_pos = 0, !.write_pos = 0, !.size = 0]


(***************************************************************************)
(* WakeWordDetector::processPrediction on activationCount_ = a.            *)
(* Probabilities and thresholds are written in tenths (5 stands for 0.5).  *)
(* The result is the new counter, whether a detection event was written    *)
(* to stdout, and the number of debug lines written to stderr.             *)
(***************************************************************************)
\* if (probability > config_.threshold)
Activates_GreaterEqual(config, probability) == probability >= config.threshold

Activates(config, probability) == probability > config.threshold

\* activationCount_ = -config_.refractorySteps
RefractoryStart_None(config) == 0

RefractoryStart_OneMore(config) == 0 - (config.refractorySteps + 1)

RefractoryStart(config) == 0 - config.refractorySteps

\* the else branch: decay toward zero from either side
Decay_None(a) == IF a > 0 THEN a ELSE Min(0, a + 1)

Decay(a) == IF a > 0 THEN Max(0, a - 1) ELSE Min(0, a + 1)

ProcessPrediction(a, config, probability) ==
    LET debugLines == IF config.debug THEN 1 ELSE 0
    IN  IF Activates(config, probability)
        THEN LET incremented == a + 1
             IN  IF incremented >= config.triggerLevel
                 THEN [a |-> RefractoryStart(config), fired |-> TRUE,
                       debugLines |-> debugLines]
                 ELSE [a |-> incremented, fired |-> FALSE,
                       debugLines |-> debugLines]
        ELSE [a |-> Decay(a), fired |-> FALSE, debugLines |-> debugLines]

(***************************************************************************)
(* The inference backend.  A model is a deterministic function of its      *)
(* input tensor; its output elements are labelled by the stream position   *)
(* of the input window they were computed from.                            *)
(***************************************************************************)
\* MelSpectrogramModel::computeMelSpectrogram throws std::invalid_argument
MelModelRejects(samples) == VLen(samples) # MelModelStepFrames * CHUNK_SAMPLES

\* MelSpectrogramModel::computeMelSpectrogram: 5 mel frames of 32 per chunk
ComputeMelSpectrogram(samples) ==
    LET chunks == VLen(samples) \div CHUNK_SAMPLES
    IN  VRun((VFirst(samples) \div CHUNK_SAMPLES) * MelFramesPerChunk * NUM_MELS,
             chunks * MelFramesPerChunk * NUM_MELS)

\* EmbeddingModel::extractEmbeddings throws std::invalid_argument
EmbModelRejects(mels) == VLen(mels) < EMBEDDING_WINDOW_SIZE * NUM_MELS

\* EmbeddingModel::extractEmbeddings: one vector of 96 floats per window
ExtractEmbeddings(mels) ==
    VRun((VFirst(mels) \div (EMBEDDING_STEP_SIZE * NUM_MELS)) * EMBEDDING_FEATURES,
         EMBEDDING_FEATURES)

\* WakeWordModel::predict throws std::invalid_argument
WakeWordModelRejects(features) ==
    VLen(features) < WAKEWORD_FEATURES * EMBEDDING_FEATURES


(***************************************************************************)
(* State                                                                   *)
(***************************************************************************)
VARIABLES
    \* an object driven directly by its callers: a ThreadSafeBuffer with one
    \* producer and its consumers, a RingBuffer, a Config being parsed
    hch,            \* the object
    hprod,          \* producer: [pc, pushed (the sizes of the batches pushed)]
    hcons,          \* consumer -> [pc, got (all it pulled), pulls], or
                    \* caller -> the record of its latest call
    \* detectors
    wwConfig,       \* detector -> WakeWordConfig
    activationCount,\* detector -> activationCount_
    predLog,        \* detector -> sequence of <<probability, fired>>
    stdoutLog,      \* the detection events written to stdout, in order
    stderrLines,    \* detector -> number of debug lines written to stderr
    outputMutex,    \* Pipeline::outputMutex_: the detector that holds it, or 0
    \* configuration and audio source
    stepFrames,     \* Config::stepFrames (frameSize = stepFrames * CHUNK_SAMPLES)
    numWakeWords,   \* number of configured keyword models
    stdinLeft,      \* samples the audio source still holds
    stdinPos,       \* samples read from the audio source so far
    \* Pipeline
    running,        \* Pipeline::running_
    readyCount,     \* Pipeline::readyCount_
    readyWaiting,   \* threads asleep in readyCv_.wait
    audioBuffer,    \* Pipeline::audioBuffer_
    melBuffer,      \* Pipeline::melBuffer_
    featureBuffers, \* Pipeline::featureBuffers_
    hostPc, hostIdx,\* the host thread (main) and its loop index inside stop()
    melPc, melProc, \* mel worker: position, [ring, samples, frameSamples]
    embPc, embProc, \* embedding worker: position, [ring, mels, windowMels, embeddings, idx]
    detPc, detProc, \* detector -> position, detector -> [todoFeatures, features, probability]
    crashed,        \* "" or the exception that escaped a worker (std::terminate)
    \* history
    melCalls,       \* the input frames of the mel model invocations, in order
    embLog,         \* all embedding vectors the embedding model produced
    detGot          \* detector -> all embedding scalars it pulled

hvars   == <<hch, hprod, hcons>>
dvars   == <<wwConfig, activationCount, predLog, stdoutLog, stderrLines,
             outputMutex>>
cfgvars == <<stepFrames, numWakeWords>>
srcvars == <<stdinLeft, stdinPos>>
pvars   == <<running, readyCount, readyWaiting, audioBuffer, melBuffer,
             featureBuffers, hostPc, hostIdx, melPc, melProc, embPc, embProc,
             detPc, detProc, crashed, melCalls, embLog, detGot>>
vars    == <<hvars, dvars, cfgvars, srcvars, pvars>>

Dets == 1 .. numWakeWords

RECURSIVE SumSeq(_)
SumSeq(q) == IF q = <<>> THEN 0 ELSE q[1] + SumSeq(Tail(q))

(***************************************************************************)
(* Bounds                                                                  *)
(***************************************************************************)
\* pushes of the channel producer, and the largest batch it pushes
MaxPushes == 3
MaxBatch == 2
\* predictions fed to a detector driven directly
MaxPredictions == 7
\* largest triggerLevel and refractorySteps tried
MaxTriggerLevel == 3
MaxRefractory == 2
\* frames of audio the host reads from stdin at most
MaxStdinFrames == 10
\* detectors (keyword models) configured at most
MaxDetectors == 2
\* pushes of a stage's producer, and the most it pushes in all
MaxFeeds == 5
MaxFeedChunks == 20
MaxFeedMelFrames == 200

(***************************************************************************)
(* Initial values shared by the specifications                             *)
(***************************************************************************)
HarnessIdle ==
    /\ hch = TSB_New
    /\ hprod = [pc |-> "done", pushed |-> <<>>]
    /\ hcons = << >>

DetectorsInit(configs) ==
    /\ wwConfig = configs
    /\ activationCount = [d \in DOMAIN configs |-> 0]
    /\ predLog = [d \in DOMAIN configs |-> <<>>]
    /\ stdoutLog = <<>>
    /\ stderrLines = [d \in DOMAIN configs |-> 0]
    /\ outputMutex = 0

PipelineInit(n, step, samples, at) ==
    /\ numWakeWords = n
    /\ stepFrames = step
    /\ stdinLeft = samples
    /\ stdinPos = 0
    /\ running = FALSE
    /\ readyCount = 0
    /\ readyWaiting = {}
    /\ audioBuffer = TSB_New
    /\ melBuffer = TSB_New
    /\ featureBuffers = [d \in 1 .. n |-> TSB_New]
    /\ hostPc = at.host
    /\ hostIdx = 0
    /\ melPc = at.mel
    /\ melProc = [ring |-> RB_New(MelRingChunks * CHUNK_SAMPLES),
                  samples |-> <<>>,
                  frameSamples |-> VRun(0 - step * CHUNK_SAMPLES, step * CHUNK_SAMPLES)]
    /\ embPc = at.emb
    /\ embProc = [ring |-> RB_New(EMBEDDING_WINDOW_SIZE * NUM_MELS * EmbRingWindows),
                  mels |-> <<>>,
                  windowMels |-> VRun(0 - EMBEDDING_WINDOW_SIZE * NUM_MELS,
                                      EMBEDDING_WINDOW_SIZE * NUM_MELS),
                  embeddings |-> <<>>,
                  idx |-> 0]
    /\ detPc = [d \in 1 .. n |-> at.det]
    /\ detProc = [d \in 1 .. n |-> [todoFeatures |-> <<>>, features |-> <<>>,
                                  probability |-> 0]]
    /\ crashed = ""
    /\ melCalls = <<>>
    /\ embLog = <<>>
    /\ detGot = [d \in 1 .. n |-> <<>>]

\* no thread of the pipeline exists
NotStarted ==
    [host |-> "unstarted", mel |-> "unstarted", emb |-> "unstarted",
     det |-> "unstarted"]

\* main() is about to call Pipeline::start
BeforeStart ==
    [host |-> "start", mel |-> "unstarted", emb |-> "unstarted",
     det |-> "unstarted"]

(***************************************************************************)
(* A ThreadSafeBuffer with one producer, which pushes batches of           *)
(* consecutive stream elements and then calls setExhausted(true), and      *)
(* consumers that pull until their first empty pull.                       *)
(***************************************************************************)
ProdPush(size) ==
    /\ hprod.pc = "push"
    /\ Len(hprod.pushed) < MaxPushes
    /\ hch' \in TSB_NotifyOne(TSB_Push(hch, VRun(SumSeq(hprod.pushed), size)))
    /\ hprod' = [hprod EXCEPT !.pushed = Append(@, size)]
    /\ UNCHANGED <<hcons, dvars, cfgvars, srcvars, pvars>>

ProdSetExhausted ==
    /\ hprod.pc = "push"
    /\ hch' \in TSB_NotifyOne(TSB_SetExhausted(hch, TRUE))
    /\ hprod' = [hprod EXCEPT !.pc = "done"]
    /\ UNCHANGED <<hcons, dvars, cfgvars, srcvars, pvars>>

ConsPull(c) ==
    /\ \/ hcons[c].pc = "pull"
       \/ hcons[c].pc = "blocked" /\ c \notin hch.waiting
    /\ IF TSB_CanPull(hch)
       THEN LET result == TSB_PullResult(hch)
            IN  /\ hch' = TSB_PullState(hch)
                /\ hcons' = [hcons EXCEPT
                       ![c].got = VCat(@, result),
                       ![c].pulls = @ + 1,
                       ![c].pc = IF result = <<>> THEN "done" ELSE "pull"]
       ELSE /\ hch' = TSB_Sleep(hch, c)
            /\ hcons' = [hcons EXCEPT ![c].pc = "blocked"]
    /\ UNCHANGED <<hprod, dvars, cfgvars, srcvars, pvars>>

\* a condition variable may wake a sleeper without any notify
ConsSpuriousWake(c) ==
    /\ c \in hch.waiting
    /\ hch' = [hch EXCEPT !.waiting = @ \ {c}]
    /\ UNCHANGED <<hprod, hcons, dvars, cfgvars, srcvars, pvars>>

InitChan ==
    /\ hch = TSB_New
    /\ hprod = [pc |-> "push", pushed |-> <<>>]
    /\ hcons = [c \in {"c1"} |-> [pc |-> "pull", got |-> <<>>, pulls |-> 0]]
    /\ DetectorsInit(<< >>)
    /\ PipelineInit(0, MelModelStepFrames, 0, NotStarted)

NextChan ==
    \/ \E size \in 0 .. MaxBatch : ProdPush(size)
    \/ ProdSetExhausted
    \/ \E c \in DOMAIN hcons : ConsPull(c)
    \/ \E c \in DOMAIN hcons : ConsSpuriousWake(c)

SpecChan == InitChan /\ [][NextChan]_vars

\* C1 (as stated): with one producer and one consumer, once the producer has
\* finished (pushes, then setExhausted(true)) and the consumer has seen its
\* first empty pull, what the consumer pulled is everything that was pushed,
\* in push order.
C1_AllPushedBeforeFirstEmptyPull ==
    \A c \in DOMAIN hcons :
        (hprod.pc = "done" /\ hcons[c].pc = "done")
            => hcons[c].got = VRun(0, SumSeq(hprod.pushed))

\* C1 (amended): the same, provided every pushed batch is non-empty.
C1_AllNonEmptyPushedBeforeFirstEmptyPull ==
    \A c \in DOMAIN hcons :
        (/\ hprod.pc = "done"
         /\ hcons[c].pc = "done"
         /\ \A i \in 1 .. Len(hprod.pushed) : hprod.pushed[i] > 0)
            => hcons[c].got = VRun(0, SumSeq(hprod.pushed))

C1_Witness ==
    /\ hprod.pc = "done"
    /\ Len(hprod.pushed) = MaxPushes
    /\ \A i \in 1 .. Len(hprod.pushed) : hprod.pushed[i] = MaxBatch
    /\ hcons["c1"].pc = "done"
    /\ hcons["c1"].pulls = MaxPushes + 1
    /\ hcons["c1"].got = VRun(0, MaxPushes * MaxBatch)


(***************************************************************************)
(* A detector driven directly: one processPrediction call per step, on     *)
(* any probability, for every configuration in the bounds.                 *)
(***************************************************************************)
\* probabilities tried, in tenths: below, at and above the threshold
Probabilities == {4, 5, 6}

\* one call of processPrediction by detector d, with its writes to stdout/stderr
ApplyPrediction(d, probability) ==
    LET r == ProcessPrediction(activationCount[d], wwConfig[d], probability)
    IN  /\ activationCount' = [activationCount EXCEPT ![d] = r.a]
        /\ predLog' = [predLog EXCEPT ![d] = Append(@, <<probability, r.fired>>)]
        /\ stdoutLog' = IF r.fired THEN Append(stdoutLog, d) ELSE stdoutLog
        /\ stderrLines' = [stderrLines EXCEPT ![d] = @ + r.debugLines]
        /\ UNCHANGED <<wwConfig, outputMutex>>

DetectorPrediction(d, probability) ==
    /\ Len(predLog[d]) < MaxPredictions
    /\ ApplyPrediction(d, probability)
    /\ UNCHANGED <<hvars, cfgvars, srcvars, pvars>>

InitDet ==
    /\ HarnessIdle
    /\ \E t \in 1 .. MaxTriggerLevel, r \in 0 .. MaxRefractory, dbg \in BOOLEAN :
           DetectorsInit(<< [threshold |-> 5, triggerLevel |-> t,
                             refractorySteps |-> r, debug |-> dbg] >>)
    /\ PipelineInit(1, MelModelStepFrames, 0, NotStarted)

NextDet ==
    \E d \in DOMAIN wwConfig, probability \in Probabilities :
        DetectorPrediction(d, probability)

SpecDet == InitDet /\ [][NextDet]_vars

\* the predictions i of detector d at which a detection event was emitted
FiredAt(d) == {i \in 1 .. Len(predLog[d]) : predLog[d][i][2]}

\* whether prediction i of detector d was above the threshold
Above(d, i) == predLog[d][i][1] > wwConfig[d].threshold

\* above-threshold minus other predictions of detector d among from .. to
Net(d, from, to) ==
    Cardinality({i \in from .. to : Above(d, i)})
        - Cardinality({i \in from .. to : ~Above(d, i)})

\* the last trigger of detector d before prediction n (0: none)
LastTriggerBefore(d, n) ==
    LET earlier == {i \in FiredAt(d) : i < n}
    IN  IF earlier = {} THEN 0
        ELSE CHOOSE i \in earlier : \A j \in earlier : j <= i

\* C2: every processPrediction call changes the activation counter a as
\* specified: p > threshold increments a and, when the new value reaches
\* triggerLevel, emits exactly one detection event and sets a to
\* -refractorySteps; p <= threshold emits nothing and moves a one step
\* toward 0.
C2_TransitionAsSpecified ==
    [][\A d \in DOMAIN predLog :
          Len(predLog'[d]) = Len(predLog[d]) + 1 =>
              LET p  == predLog'[d][Len(predLog'[d])][1]
                  a  == activationCount[d]
                  a2 == activationCount'[d]
              IN  IF p > wwConfig[d].threshold
                  THEN IF a + 1 >= wwConfig[d].triggerLevel
                       THEN /\ a2 = 0 - wwConfig[d].refractorySteps
                            /\ stdoutLog' = Append(stdoutLog, d)
                       ELSE /\ a2 = a + 1
                            /\ stdoutLog' = stdoutLog
                  ELSE /\ stdoutLog' = stdoutLog
                       /\ a > 0 => a2 = a - 1
                       /\ a < 0 => a2 = a + 1
                       /\ a = 0 => a2 = 0]_vars

C2_Witness ==
    /\ wwConfig[1].triggerLevel = 2
    /\ wwConfig[1].refractorySteps = 2
    /\ predLog[1] = << <<6, FALSE>>, <<4, FALSE>>, <<4, FALSE>>, <<6, FALSE>>,
                       <<6, TRUE>>, <<5, FALSE>> >>
    /\ activationCount[1] = 0 - 1
    /\ stdoutLog = <<1>>

\* C3: within any refractorySteps + triggerLevel consecutive predictions
\* that follow a detection event, the detector emits at most one further
\* detection event.
C3_RefractoryBound ==
    \A d \in DOMAIN predLog :
        \A i \in FiredAt(d) :
            Cardinality({j \in FiredAt(d) :
                            /\ i < j
                            /\ j <= i + wwConfig[d].refractorySteps
                                      + wwConfig[d].triggerLevel}) <= 1

C3_Witness ==
    /\ wwConfig[1].triggerLevel = 2
    /\ wwConfig[1].refractorySteps = 2
    /\ FiredAt(1) = {2, 6}
    /\ Len(predLog[1]) = 7

\* C4 (as stated): a detection event is emitted only if, in the history
\* since the last trigger (or start), at least triggerLevel predictions were
\* above the threshold and above-minus-below has reached triggerLevel (over
\* some prefix of that history, the whole history included).
C4_DebounceOverHistory ==
    \A d \in DOMAIN predLog :
        \A n \in FiredAt(d) :
            LET s == LastTriggerBefore(d, n)
            IN  /\ Cardinality({i \in s + 1 .. n : Above(d, i)})
                       >= wwConfig[d].triggerLevel
                /\ \E k \in s + 1 .. n :
                       Net(d, s + 1, k) >= wwConfig[d].triggerLevel

\* C4 (amended): ... and above-minus-below equals triggerLevel over some
\* trailing run of that history (the most recent predictions up to the
\* triggering one).
C4_DebounceOverTrailingRun ==
    \A d \in DOMAIN predLog :
        \A n \in FiredAt(d) :
            LET s == LastTriggerBefore(d, n)
            IN  /\ Cardinality({i \in s + 1 .. n : Above(d, i)})
                       >= wwConfig[d].triggerLevel
                /\ \E k \in s + 1 .. n :
                       Net(d, k, n) = wwConfig[d].triggerLevel

C4_Witness ==
    /\ wwConfig[1].triggerLevel = 2
    /\ wwConfig[1].refractorySteps = 1
    /\ predLog[1] = << <<4, FALSE>>, <<6, FALSE>>, <<6, TRUE>>, <<4, FALSE>>,
                       <<4, FALSE>>, <<6, FALSE>>, <<6, TRUE>> >>

\* C5: with triggerLevel >= 1 and refractorySteps >= 0, activationCount
\* starts at 0 and stays within [-refractorySteps, triggerLevel].
C5_ActivationCountRange ==
    \A d \in DOMAIN activationCount :
        /\ predLog[d] = <<>> => activationCount[d] = 0
        /\ activationCount[d] >= 0 - wwConfig[d].refractorySteps
        /\ activationCount[d] <= wwConfig[d].triggerLevel

C5_Witness ==
    /\ wwConfig[1].triggerLevel = MaxTriggerLevel
    /\ wwConfig[1].refractorySteps = MaxRefractory
    /\ activationCount[1] = 0 - MaxRefractory
    /\ \E i \in 1 .. Len(predLog[1]) : predLog[1][i][2]

(***************************************************************************)
(* The pipeline: main() as the host thread, and the mel, embedding and     *)
(* detector workers started by Pipeline::start.  Each action is one        *)
(* access to a shared object (a channel, the ready counter, a join, the    *)
(* output stream) together with the thread-local code around it.  An       *)
(* exception that leaves a worker's thread function calls std::terminate:  *)
(* `crashed` names it and no thread takes another step.                    *)
(***************************************************************************)
readyvars == <<readyCount, readyWaiting>>
hostvars  == <<hostPc, hostIdx>>
melvars   == <<melPc, melProc>>
embvars   == <<embPc, embProc>>
detvars   == <<detPc, detProc>>

\* Config::frameSize = stepFrames * CHUNK_SAMPLES, handed to setFrameSize
FrameSize_TwoFrames == 2 * stepFrames * CHUNK_SAMPLES

FrameSize == stepFrames * CHUNK_SAMPLES

\* Pipeline::expectedReadyCount_
ExpectedReadyCount_OneLess == 1 + numWakeWords

ExpectedReadyCount == 2 + numWakeWords

\* the loop exit of every worker: if (input->isExhausted() && batch.empty()) break;
WorkerExits_OnExhaustedFlag(input, batch) == input.exhausted

WorkerExits(input, batch) == TSB_IsExhausted(input) /\ batch = <<>>

\* SimdAudio::convertToFloat: output.resize(count); output[i] = float(input[i])
ConvertToFloat(input, count) == VTake(input, count)

\* Pipeline::incrementReady: readyCount_++; readyCv_.notify_one()
IncrementReady ==
    /\ readyCount' = readyCount + 1
    /\ readyWaiting' \in IF readyWaiting = {} THEN {readyWaiting}
                         ELSE {readyWaiting \ {w} : w \in readyWaiting}

\* Pipeline::start
Start ==
    /\ crashed = ""
    /\ hostPc = "start"
    /\ IF running
       THEN UNCHANGED <<running, readyCount, melPc, embPc, detPc>>
       ELSE /\ running' = TRUE
            /\ readyCount' = 0
            /\ melPc' = "spawned"
            /\ embPc' = "spawned"
            /\ detPc' = [d \in Dets |-> "spawned"]
    /\ hostPc' = "waitUntilReady"
    /\ UNCHANGED <<readyWaiting, audioBuffer, melBuffer, featureBuffers, hostIdx,
                   melProc, embProc, detProc, crashed, melCalls, embLog, detGot,
                   srcvars, dvars, hvars, cfgvars>>

\* Pipeline::waitUntilReady: readyCv_.wait(lock, readyCount_ >= expectedReadyCount_)
WaitUntilReady ==
    /\ crashed = ""
    /\ hostPc = "waitUntilReady"
    /\ "host" \notin readyWaiting
    /\ IF readyCount >= ExpectedReadyCount
       THEN hostPc' = "read" /\ UNCHANGED readyWaiting
       ELSE readyWaiting' = readyWaiting \cup {"host"} /\ UNCHANGED hostPc
    /\ UNCHANGED <<running, readyCount, audioBuffer, melBuffer, featureBuffers,
                   hostIdx, melvars, embvars, detvars, crashed, melCalls, embLog,
                   detGot, srcvars, dvars, hvars, cfgvars>>

ReadySpuriousWake ==
    /\ crashed = ""
    /\ "host" \in readyWaiting
    /\ readyWaiting' = readyWaiting \ {"host"}
    /\ UNCHANGED <<running, readyCount, audioBuffer, melBuffer, featureBuffers,
                   hostvars, melvars, embvars, detvars, crashed, melCalls, embLog,
                   detGot, srcvars, dvars, hvars, cfgvars>>

\* main: framesRead = fread(..., frameSize, stdin); while (framesRead > 0 &&
\* isRunning()) processAudio(samples, framesRead)
HostProcessAudio ==
    /\ crashed = ""
    /\ hostPc = "read"
    /\ stdinLeft > 0
    /\ running
    /\ LET framesRead == Min(FrameSize, stdinLeft)
           floatSamples == ConvertToFloat(VRun(stdinPos, framesRead), framesRead)
       IN  /\ audioBuffer' \in TSB_NotifyOne(TSB_Push(audioBuffer, floatSamples))
           /\ stdinLeft' = stdinLeft - framesRead
           /\ stdinPos' = stdinPos + framesRead
    /\ UNCHANGED <<running, readyvars, melBuffer, featureBuffers, hostvars, melvars,
                   embvars, detvars, crashed, melCalls, embLog, detGot, dvars,
                   hvars, cfgvars>>

\* main leaves its loop and calls Pipeline::stop, up to the first join
StopBegin ==
    /\ crashed = ""
    /\ hostPc = "read"
    /\ stdinLeft = 0 \/ ~running
    /\ IF running
       THEN /\ running' = FALSE
            /\ audioBuffer' \in TSB_NotifyOne(TSB_SetExhausted(audioBuffer, TRUE))
            /\ hostPc' = "joinMel"
       ELSE /\ hostPc' = "stopped"
            /\ UNCHANGED <<running, audioBuffer>>
    /\ UNCHANGED <<readyvars, melBuffer, featureBuffers, hostIdx, melvars, embvars,
                   detvars, crashed, melCalls, embLog, detGot, srcvars, dvars,
                   hvars, cfgvars>>

\* melThread_.join(); melBuffer_->setExhausted(true)
StopJoinMel ==
    /\ crashed = ""
    /\ hostPc = "joinMel"
    /\ melPc = "done"
    /\ melBuffer' \in TSB_NotifyOne(TSB_SetExhausted(melBuffer, TRUE))
    /\ hostPc' = "joinEmb"
    /\ UNCHANGED <<running, readyvars, audioBuffer, featureBuffers, hostIdx, melvars,
                   embvars, detvars, crashed, melCalls, embLog, detGot, srcvars,
                   dvars, hvars, cfgvars>>

\* embeddingThread_.join()
StopJoinEmb ==
    /\ crashed = ""
    /\ hostPc = "joinEmb"
    /\ embPc = "done"
    /\ hostPc' = "exhaustFeatures"
    /\ hostIdx' = 1
    /\ UNCHANGED <<running, readyvars, audioBuffer, melBuffer, featureBuffers,
                   melvars, embvars, detvars, crashed, melCalls, embLog, detGot,
                   srcvars, dvars, hvars, cfgvars>>

\* for (auto& buffer : featureBuffers_) buffer->setExhausted(true)
StopExhaustFeature ==
    /\ crashed = ""
    /\ hostPc = "exhaustFeatures"
    /\ featureBuffers' \in
          {[featureBuffers EXCEPT ![hostIdx] = b] :
              b \in TSB_NotifyOne(TSB_SetExhausted(featureBuffers[hostIdx], TRUE))}
    /\ IF hostIdx = numWakeWords
       THEN hostPc' = "joinDetectors" /\ hostIdx' = 1
       ELSE hostIdx' = hostIdx + 1 /\ UNCHANGED hostPc
    /\ UNCHANGED <<running, readyvars, audioBuffer, melBuffer, melvars, embvars,
                   detvars, crashed, melCalls, embLog, detGot, srcvars, dvars,
                   hvars, cfgvars>>

\* for (auto& thread : detectorThreads_) thread.join(); then stop() returns
StopJoinDetector ==
    /\ crashed = ""
    /\ hostPc = "joinDetectors"
    /\ detPc[hostIdx] = "done"
    /\ IF hostIdx = numWakeWords
       THEN hostPc' = "stopped" /\ UNCHANGED hostIdx
       ELSE hostIdx' = hostIdx + 1 /\ UNCHANGED hostPc
    /\ UNCHANGED <<running, readyvars, audioBuffer, melBuffer, featureBuffers,
                   melvars, embvars, detvars, crashed, melCalls, embLog, detGot,
                   srcvars, dvars, hvars, cfgvars>>

(***************************************************************************)
(* The mel worker: incrementReady, then MelSpectrogramProcessor::run       *)
(***************************************************************************)
MelReady ==
    /\ crashed = ""
    /\ melPc = "spawned"
    /\ IncrementReady
    /\ melPc' = "pull"
    /\ UNCHANGED <<running, audioBuffer, melBuffer, featureBuffers, hostvars,
                   melProc, embvars, detvars, crashed, melCalls, embLog, detGot,
                   srcvars, dvars, hvars, cfgvars>>

\* if (!samples.empty()) audioBuffer_.push(samples); and the inner loop's test
MelAccumulate(samples) ==
    IF samples # <<>> /\ RB_PushOverflows(melProc.ring, samples)
    THEN /\ crashed' = "overflow_error"
         /\ melProc' = [melProc EXCEPT !.samples = samples]
         /\ UNCHANGED melPc
    ELSE LET ring == IF samples # <<>> THEN RB_Push(melProc.ring, samples)
                     ELSE melProc.ring
         IN  /\ melProc' = [melProc EXCEPT !.ring = ring, !.samples = <<>>]
             /\ melPc' = IF ring.size >= FrameSize THEN "frame" ELSE "pull"
             /\ UNCHANGED crashed

\* auto samples = input->pull().  A non-empty batch decides the exit test
\* whatever isExhausted() then returns, so the test and the accumulation are
\* taken with the pull; after an empty batch the test is a step of its own.
MelPull ==
    /\ crashed = ""
    /\ melPc = "pull"
    /\ "mel" \notin audioBuffer.waiting
    /\ IF TSB_CanPull(audioBuffer)
       THEN LET samples == TSB_PullResult(audioBuffer)
                after   == TSB_PullState(audioBuffer)
            IN  /\ audioBuffer' = after
                /\ IF samples = <<>>
                   THEN /\ melPc' = "check"
                        /\ UNCHANGED <<melProc, crashed>>
                   ELSE IF WorkerExits(after, samples)
                   THEN /\ melPc' = "exhaust"
                        /\ UNCHANGED <<melProc, crashed>>
                   ELSE MelAccumulate(samples)
       ELSE /\ audioBuffer' = TSB_Sleep(audioBuffer, "mel")
            /\ UNCHANGED <<melvars, crashed>>
    /\ UNCHANGED <<running, readyvars, melBuffer, featureBuffers, hostvars, embvars,
                   detvars, melCalls, embLog, detGot, srcvars, dvars, hvars,
                   cfgvars>>

AudioSpuriousWake ==
    /\ crashed = ""
    /\ "mel" \in audioBuffer.waiting
    /\ audioBuffer' = [audioBuffer EXCEPT !.waiting = @ \ {"mel"}]
    /\ UNCHANGED <<running, readyvars, melBuffer, featureBuffers, hostvars, melvars,
                   embvars, detvars, crashed, melCalls, embLog, detGot, srcvars,
                   dvars, hvars, cfgvars>>

\* if (input->isExhausted() && samples.empty()) break; after an empty batch
MelCheck ==
    /\ crashed = ""
    /\ melPc = "check"
    /\ IF WorkerExits(audioBuffer, <<>>)
       THEN /\ melPc' = "exhaust"
            /\ UNCHANGED <<melProc, crashed>>
       ELSE MelAccumulate(<<>>)
    /\ UNCHANGED <<running, readyvars, audioBuffer, melBuffer, featureBuffers,
                   hostvars, embvars, detvars, melCalls, embLog, detGot, srcvars,
                   dvars, hvars, cfgvars>>

\* audioBuffer_.pop(frameSamples, frameSize_); computeMelSpectrogram;
\* output->push(melData)
MelFrameReturning(melCount) ==
    /\ crashed = ""
    /\ melPc = "frame"
    /\ LET popped == RB_Pop(melProc.ring, melProc.frameSamples, FrameSize)
       IN  /\ melProc' = [melProc EXCEPT !.ring = popped.rb,
                                         !.frameSamples = popped.output]
           /\ IF MelModelRejects(popped.output)
              THEN /\ crashed' = "invalid_argument"
                   /\ UNCHANGED <<melPc, melBuffer, melCalls>>
              ELSE /\ melCalls' = Append(melCalls, popped.output)
                   /\ melBuffer' \in TSB_NotifyOne(
                          TSB_Push(melBuffer,
                                   VTake(ComputeMelSpectrogram(popped.output),
                                         melCount)))
                   /\ melPc' = IF popped.rb.size >= FrameSize THEN "frame" ELSE "pull"
                   /\ UNCHANGED crashed
    /\ UNCHANGED <<running, readyvars, audioBuffer, featureBuffers, hostvars,
                   embvars, detvars, embLog, detGot, srcvars, dvars, hvars, cfgvars>>

\* the element count of the tensor the mel model returns for one frame
MelOutputCount == stepFrames * MelFramesPerChunk * NUM_MELS

MelFrame == MelFrameReturning(MelOutputCount)

\* output->setExhausted(true); the thread function returns
MelSetExhausted ==
    /\ crashed = ""
    /\ melPc = "exhaust"
    /\ melBuffer' \in TSB_NotifyOne(TSB_SetExhausted(melBuffer, TRUE))
    /\ melPc' = "done"
    /\ UNCHANGED <<running, readyvars, audioBuffer, featureBuffers, hostvars,
                   melProc, embvars, detvars, crashed, melCalls, embLog, detGot,
                   srcvars, dvars, hvars, cfgvars>>

(***************************************************************************)
(* The embedding worker: incrementReady, then                              *)
(* SpeechEmbeddingProcessor::run                                           *)
(***************************************************************************)
EmbReady ==
    /\ crashed = ""
    /\ embPc = "spawned"
    /\ IncrementReady
    /\ embPc' = "pull"
    /\ UNCHANGED <<running, audioBuffer, melBuffer, featureBuffers, hostvars,
                   melvars, embProc, detvars, crashed, melCalls, embLog, detGot,
                   srcvars, dvars, hvars, cfgvars>>

\* if (!mels.empty()) melBuffer_.push(mels); and the inner loop's test
EmbAccumulate(mels) ==
    IF mels # <<>> /\ RB_PushOverflows(embProc.ring, mels)
    THEN /\ crashed' = "overflow_error"
         /\ embProc' = [embProc EXCEPT !.mels = mels]
         /\ UNCHANGED embPc
    ELSE LET ring == IF mels # <<>> THEN RB_Push(embProc.ring, mels)
                     ELSE embProc.ring
         IN  /\ embProc' = [embProc EXCEPT !.ring = ring, !.mels = <<>>, !.idx = 1]
             /\ embPc' = IF ring.size \div NUM_MELS >= EMBEDDING_WINDOW_SIZE
                         THEN "fan" ELSE "pull"
             /\ UNCHANGED crashed

\* auto mels = input->pull(), with the exit test and the accumulation when the
\* batch is not empty
EmbPull ==
    /\ crashed = ""
    /\ embPc = "pull"
    /\ "emb" \notin melBuffer.waiting
    /\ IF TSB_CanPull(melBuffer)
       THEN LET mels  == TSB_PullResult(melBuffer)
                after == TSB_PullState(melBuffer)
            IN  /\ melBuffer' = after
                /\ IF mels = <<>>
                   THEN /\ embPc' = "check"
                        /\ UNCHANGED <<embProc, crashed>>
                   ELSE IF WorkerExits(after, mels)
                   THEN /\ embPc' = "exhaust"
                        /\ embProc' = [embProc EXCEPT !.idx = 1]
                        /\ UNCHANGED crashed
                   ELSE EmbAccumulate(mels)
       ELSE /\ melBuffer' = TSB_Sleep(melBuffer, "emb")
            /\ UNCHANGED <<embvars, crashed>>
    /\ UNCHANGED <<running, readyvars, audioBuffer, featureBuffers, hostvars,
                   melvars, detvars, melCalls, embLog, detGot, srcvars, dvars,
                   hvars, cfgvars>>

MelsSpuriousWake ==
    /\ crashed = ""
    /\ "emb" \in melBuffer.waiting
    /\ melBuffer' = [melBuffer EXCEPT !.waiting = @ \ {"emb"}]
    /\ UNCHANGED <<running, readyvars, audioBuffer, featureBuffers, hostvars,
                   melvars, embvars, detvars, crashed, melCalls, embLog, detGot,
                   srcvars, dvars, hvars, cfgvars>>

\* if (input->isExhausted() && mels.empty()) break; after an empty batch
EmbCheck ==
    /\ crashed = ""
    /\ embPc = "check"
    /\ IF WorkerExits(melBuffer, <<>>)
       THEN /\ embPc' = "exhaust"
            /\ embProc' = [embProc EXCEPT !.idx = 1]
            /\ UNCHANGED crashed
       ELSE EmbAccumulate(<<>>)
    /\ UNCHANGED <<running, readyvars, audioBuffer, melBuffer, featureBuffers,
                   hostvars, melvars, detvars, melCalls, embLog, detGot, srcvars,
                   dvars, hvars, cfgvars>>

\* one output->push(embeddings) of the fan-out loop; the first comes with the
\* peek and extractEmbeddings before it, the last with the skip after it
EmbFan ==
    /\ crashed = ""
    /\ embPc = "fan"
    /\ LET first      == embProc.idx = 1
           last       == embProc.idx = numWakeWords
           windowMels == IF first
                         THEN RB_Peek(embProc.ring, embProc.windowMels,
                                      EMBEDDING_WINDOW_SIZE * NUM_MELS, 0).output
                         ELSE embProc.windowMels
           embeddings == IF first THEN ExtractEmbeddings(windowMels)
                         ELSE embProc.embeddings
           pushed     == TSB_NotifyOne(
                             TSB_Push(featureBuffers[embProc.idx], embeddings))
       IN  IF first /\ EmbModelRejects(windowMels)
           THEN /\ crashed' = "invalid_argument"
                /\ UNCHANGED <<featureBuffers, embvars, embLog>>
           ELSE /\ featureBuffers' \in
                      {[featureBuffers EXCEPT ![embProc.idx] = b] : b \in pushed}
                /\ embLog' = IF first THEN Append(embLog, embeddings) ELSE embLog
                /\ IF last /\ RB_SkipUnderflows(embProc.ring,
                                                EMBEDDING_STEP_SIZE * NUM_MELS)
                   THEN /\ crashed' = "underflow_error"
                        /\ embProc' = [embProc EXCEPT !.windowMels = windowMels,
                                                      !.embeddings = embeddings]
                        /\ UNCHANGED embPc
                   ELSE LET ring == IF last
                                    THEN RB_Skip(embProc.ring,
                                                 EMBEDDING_STEP_SIZE * NUM_MELS)
                                    ELSE embProc.ring
                        IN  /\ embProc' = [embProc EXCEPT
                                   !.ring = ring,
                                   !.windowMels = windowMels,
                                   !.embeddings = embeddings,
                                   !.idx = IF last THEN 1 ELSE @ + 1]
                            /\ embPc' =
                                   IF last /\ ring.size \div NUM_MELS
                                                  < EMBEDDING_WINDOW_SIZE
                                   THEN "pull" ELSE "fan"
                            /\ UNCHANGED crashed
    /\ UNCHANGED <<running, readyvars, audioBuffer, melBuffer, hostvars, melvars,
                   detvars, melCalls, detGot, srcvars, dvars, hvars, cfgvars>>

\* for (auto& output : outputs) output->setExhausted(true); then the thread
\* function returns
EmbSetExhausted ==
    /\ crashed = ""
    /\ embPc = "exhaust"
    /\ featureBuffers' \in
          {[featureBuffers EXCEPT ![embProc.idx] = b] :
              b \in TSB_NotifyOne(
                        TSB_SetExhausted(featureBuffers[embProc.idx], TRUE))}
    /\ IF embProc.idx = numWakeWords
       THEN embPc' = "done" /\ embProc' = [embProc EXCEPT !.idx = 1]
       ELSE embProc' = [embProc EXCEPT !.idx = @ + 1] /\ UNCHANGED embPc
    /\ UNCHANGED <<running, readyvars, audioBuffer, melBuffer, hostvars, melvars,
                   detvars, crashed, melCalls, embLog, detGot, srcvars, dvars,
                   hvars, cfgvars>>

(***************************************************************************)
(* Detector worker d: incrementReady, then WakeWordDetector::run           *)
(***************************************************************************)
DetReady(d) ==
    /\ crashed = ""
    /\ detPc[d] = "spawned"
    /\ IncrementReady
    /\ detPc' = [detPc EXCEPT ![d] = "pull"]
    /\ UNCHANGED <<running, audioBuffer, melBuffer, featureBuffers, hostvars,
                   melvars, embvars, detProc, crashed, melCalls, embLog, detGot,
                   srcvars, dvars, hvars, cfgvars>>

\* todoFeatures_.insert(end, features.begin(), features.end()); and the inner
\* loop's test
DetAccumulate(d, features) ==
    LET todo == VCat(detProc[d].todoFeatures, features)
    IN  /\ detProc' = [detProc EXCEPT ![d].todoFeatures = todo,
                                      ![d].features = <<>>]
        /\ detPc' = [detPc EXCEPT ![d] =
               IF VLen(todo) \div EMBEDDING_FEATURES >= WAKEWORD_FEATURES
               THEN "predict" ELSE "pull"]

\* auto features = input->pull(), with the exit test and the accumulation when
\* the batch is not empty
DetPull(d) ==
    /\ crashed = ""
    /\ detPc[d] = "pull"
    /\ d \notin featureBuffers[d].waiting
    /\ IF TSB_CanPull(featureBuffers[d])
       THEN LET features == TSB_PullResult(featureBuffers[d])
                after    == TSB_PullState(featureBuffers[d])
            IN  /\ featureBuffers' = [featureBuffers EXCEPT ![d] = after]
                /\ detGot' = [detGot EXCEPT ![d] = VCat(@, features)]
                /\ IF features = <<>>
                   THEN /\ detPc' = [detPc EXCEPT ![d] = "check"]
                        /\ UNCHANGED detProc
                   ELSE IF WorkerExits(after, features)
                   THEN /\ detPc' = [detPc EXCEPT ![d] = "done"]
                        /\ UNCHANGED detProc
                   ELSE DetAccumulate(d, features)
       ELSE /\ featureBuffers' = [featureBuffers EXCEPT ![d] = TSB_Sleep(@, d)]
            /\ UNCHANGED <<detvars, detGot>>
    /\ UNCHANGED <<running, readyvars, audioBuffer, melBuffer, hostvars, melvars,
                   embvars, crashed, melCalls, embLog, srcvars, dvars, hvars,
                   cfgvars>>

FeaturesSpuriousWake(d) ==
    /\ crashed = ""
    /\ d \in featureBuffers[d].waiting
    /\ featureBuffers' = [featureBuffers EXCEPT ![d].waiting = @ \ {d}]
    /\ UNCHANGED <<running, readyvars, audioBuffer, melBuffer, hostvars, melvars,
                   embvars, detvars, crashed, melCalls, embLog, detGot, srcvars,
                   dvars, hvars, cfgvars>>

\* if (input->isExhausted() && features.empty()) break; after an empty batch
DetCheck(d) ==
    /\ crashed = ""
    /\ detPc[d] = "check"
    /\ IF WorkerExits(featureBuffers[d], <<>>)
       THEN /\ detPc' = [detPc EXCEPT ![d] = "done"]
            /\ UNCHANGED detProc
       ELSE DetAccumulate(d, <<>>)
    /\ UNCHANGED <<running, readyvars, audioBuffer, melBuffer, featureBuffers,
                   hostvars, melvars, embvars, crashed, melCalls, embLog, detGot,
                   srcvars, dvars, hvars, cfgvars>>

\* the slide by all 16 embeddings of the window
DetSlide_WholeWindow(todoFeatures) ==
    VDrop(todoFeatures, WAKEWORD_FEATURES * EMBEDDING_FEATURES)

\* todoFeatures_.erase(begin, begin + EMBEDDING_FEATURES)
DetSlide(todoFeatures) == VDrop(todoFeatures, EMBEDDING_FEATURES)

\* one pass of the inner loop: predict on the first 16 embeddings,
\* processPrediction, erase one embedding
DetPredict(d, probability) ==
    /\ crashed = ""
    /\ detPc[d] = "predict"
    /\ LET windowFeatures == VTake(detProc[d].todoFeatures,
                                   WAKEWORD_FEATURES * EMBEDDING_FEATURES)
           todo == DetSlide(detProc[d].todoFeatures)
       IN  IF WakeWordModelRejects(windowFeatures)
           THEN /\ crashed' = "invalid_argument"
                /\ UNCHANGED <<detvars, dvars>>
           ELSE /\ ApplyPrediction(d, probability)
                /\ detProc' = [detProc EXCEPT ![d].todoFeatures = todo]
                /\ detPc' = [detPc EXCEPT ![d] =
                       IF VLen(todo) \div EMBEDDING_FEATURES >= WAKEWORD_FEATURES
                       THEN "predict" ELSE "pull"]
                /\ UNCHANGED crashed
    /\ UNCHANGED <<running, readyvars, audioBuffer, melBuffer, featureBuffers,
                   hostvars, melvars, embvars, melCalls, embLog, detGot, srcvars,
                   hvars, cfgvars>>

(***************************************************************************)
(* The program: main() on an audio source of a given length                *)
(***************************************************************************)
\* the trigger_level 1, refractory 1 configuration of a keyword
EagerWakeWordConfig ==
    [threshold |-> 5, triggerLevel |-> 1, refractorySteps |-> 1, debug |-> FALSE]

InitPipe ==
    /\ HarnessIdle
    /\ \E n \in 1 .. MaxDetectors :
           /\ DetectorsInit([d \in 1 .. n |-> EagerWakeWordConfig])
           /\ \E frames \in 0 .. (IF n = 1 THEN MaxStdinFrames ELSE 1),
                 tail \in {0, CHUNK_SAMPLES \div 2} :
                  PipelineInit(n, MelModelStepFrames,
                               frames * MelModelStepFrames * CHUNK_SAMPLES + tail,
                               BeforeStart)

HostSteps ==
    \/ Start
    \/ WaitUntilReady
    \/ HostProcessAudio
    \/ StopBegin
    \/ StopJoinMel
    \/ StopJoinEmb
    \/ StopExhaustFeature
    \/ StopJoinDetector

MelSteps ==
    \/ MelReady
    \/ MelPull
    \/ MelCheck
    \/ MelFrame
    \/ MelSetExhausted

EmbSteps ==
    \/ EmbReady
    \/ EmbPull
    \/ EmbCheck
    \/ EmbFan
    \/ EmbSetExhausted

DetSteps(d) ==
    \/ DetReady(d)
    \/ DetPull(d)
    \/ DetCheck(d)
    \/ \E probability \in Probabilities : DetPredict(d, probability)

SpuriousWakes ==
    \/ ReadySpuriousWake
    \/ AudioSpuriousWake
    \/ MelsSpuriousWake
    \/ \E d \in Dets : FeaturesSpuriousWake(d)

NextPipe ==
    \/ HostSteps
    \/ MelSteps
    \/ EmbSteps
    \/ \E d \in Dets : DetReady(d)
    \/ \E d \in Dets : DetPull(d)
    \/ \E d \in Dets : DetCheck(d)
    \/ \E d \in Dets, probability \in Probabilities : DetPredict(d, probability)
    \/ SpuriousWakes

SpecPipe == InitPipe /\ [][NextPipe]_vars

(***************************************************************************)
(* Start-up: main() from Pipeline::start to the return of waitUntilReady,  *)
(* and every worker from its thread function's first statement to its      *)
(* first pull, which blocks because no audio has been pushed yet.          *)
(***************************************************************************)
InitStartup ==
    /\ HarnessIdle
    /\ \E n \in 1 .. MaxDetectors :
           /\ DetectorsInit([d \in 1 .. n |-> EagerWakeWordConfig])
           /\ PipelineInit(n, MelModelStepFrames, 0, BeforeStart)

NextStartup ==
    \/ Start
    \/ WaitUntilReady
    \/ ReadySpuriousWake
    \/ MelReady
    \/ MelPull
    \/ AudioSpuriousWake
    \/ EmbReady
    \/ EmbPull
    \/ MelsSpuriousWake
    \/ \E d \in Dets : DetReady(d)
    \/ \E d \in Dets : DetPull(d)
    \/ \E d \in Dets : FeaturesSpuriousWake(d)

SpecStartup == InitStartup /\ [][NextStartup]_vars

\* the scheduler lets every thread that can take a step take one; a
\* condition variable owes no spurious wake-up
FairSpecStartup ==
    /\ SpecStartup
    /\ WF_vars(Start \/ WaitUntilReady)
    /\ WF_vars(MelReady \/ MelPull)
    /\ WF_vars(EmbReady \/ EmbPull)
    /\ \A d \in 1 .. MaxDetectors :
           WF_vars(d \in Dets /\ (DetReady(d) \/ DetPull(d)))

(***************************************************************************)
(* MelSpectrogramProcessor::run on its own: a producer pushes batches of   *)
(* consecutive samples into the input channel and then marks it exhausted. *)
(***************************************************************************)
\* the batch sizes the producer pushes, in chunks of CHUNK_SAMPLES
AudioBatchChunks == {0, 2, 4, 10}

\* the STEP_FRAMES settings tried
StepFramesTried == {2, MelModelStepFrames}

FeedAudio(chunks) ==
    /\ crashed = ""
    /\ hprod.pc = "push"
    /\ Len(hprod.pushed) < MaxFeeds
    /\ SumSeq(hprod.pushed) + chunks * CHUNK_SAMPLES <= MaxFeedChunks * CHUNK_SAMPLES
    /\ audioBuffer' \in TSB_NotifyOne(
           TSB_Push(audioBuffer, VRun(SumSeq(hprod.pushed), chunks * CHUNK_SAMPLES)))
    /\ hprod' = [hprod EXCEPT !.pushed = Append(@, chunks * CHUNK_SAMPLES)]
    /\ UNCHANGED <<hch, hcons, running, readyvars, melBuffer, featureBuffers,
                   hostvars, melvars, embvars, detvars, crashed, melCalls, embLog,
                   detGot, srcvars, dvars, cfgvars>>

FeedAudioExhausted ==
    /\ crashed = ""
    /\ hprod.pc = "push"
    /\ audioBuffer' \in TSB_NotifyOne(TSB_SetExhausted(audioBuffer, TRUE))
    /\ hprod' = [hprod EXCEPT !.pc = "done"]
    /\ UNCHANGED <<hch, hcons, running, readyvars, melBuffer, featureBuffers,
                   hostvars, melvars, embvars, detvars, crashed, melCalls, embLog,
                   detGot, srcvars, dvars, cfgvars>>

\* run() has been entered by the mel worker only
MelRunning ==
    [host |-> "unstarted", mel |-> "pull", emb |-> "unstarted", det |-> "unstarted"]

InitMel ==
    /\ hch = TSB_New
    /\ hprod = [pc |-> "push", pushed |-> <<>>]
    /\ hcons = << >>
    /\ DetectorsInit(<< >>)
    /\ \E step \in StepFramesTried : PipelineInit(0, step, 0, MelRunning)

NextMel ==
    \/ \E chunks \in AudioBatchChunks : FeedAudio(chunks)
    \/ FeedAudioExhausted
    \/ MelPull
    \/ AudioSpuriousWake
    \/ MelCheck
    \/ MelFrame
    \/ MelSetExhausted

SpecMel == InitMel /\ [][NextMel]_vars

(***************************************************************************)
(* SpeechEmbeddingProcessor::run and the detectors' WakeWordDetector::run  *)
(* on their own: a producer pushes mel batches into the mel channel and    *)
(* then marks it exhausted.                                                *)
(***************************************************************************)
\* the batch the producer pushes, in mel frames of NUM_MELS scalars: the mel
\* output for two frames of audio at the default STEP_FRAMES
MelBatchFrames == {2 * MelModelStepFrames * MelFramesPerChunk}

FeedMels(frames) ==
    /\ crashed = ""
    /\ hprod.pc = "push"
    /\ Len(hprod.pushed) < MaxFeeds
    /\ SumSeq(hprod.pushed) + frames * NUM_MELS <= MaxFeedMelFrames * NUM_MELS
    /\ melBuffer' \in TSB_NotifyOne(
           TSB_Push(melBuffer, VRun(SumSeq(hprod.pushed), frames * NUM_MELS)))
    /\ hprod' = [hprod EXCEPT !.pushed = Append(@, frames * NUM_MELS)]
    /\ UNCHANGED <<hch, hcons, running, readyvars, audioBuffer, featureBuffers,
                   hostvars, melvars, embvars, detvars, crashed, melCalls, embLog,
                   detGot, srcvars, dvars, cfgvars>>

FeedMelsExhausted ==
    /\ crashed = ""
    /\ hprod.pc = "push"
    /\ melBuffer' \in TSB_NotifyOne(TSB_SetExhausted(melBuffer, TRUE))
    /\ hprod' = [hprod EXCEPT !.pc = "done"]
    /\ UNCHANGED <<hch, hcons, running, readyvars, audioBuffer, featureBuffers,
                   hostvars, melvars, embvars, detvars, crashed, melCalls, embLog,
                   detGot, srcvars, dvars, cfgvars>>

\* run() has been entered by the embedding worker and by every detector
FanRunning ==
    [host |-> "unstarted", mel |-> "unstarted", emb |-> "pull", det |-> "pull"]

InitFan ==
    /\ hch = TSB_New
    /\ hprod = [pc |-> "push", pushed |-> <<>>]
    /\ hcons = << >>
    /\ DetectorsInit([d \in 1 .. MaxDetectors |-> EagerWakeWordConfig])
    /\ PipelineInit(MaxDetectors, MelModelStepFrames, 0, FanRunning)

NextFan ==
    \/ \E frames \in MelBatchFrames : FeedMels(frames)
    \/ FeedMelsExhausted
    \/ EmbPull
    \/ MelsSpuriousWake
    \/ EmbCheck
    \/ EmbFan
    \/ EmbSetExhausted
    \/ \E d \in Dets : DetPull(d)
    \/ \E d \in Dets : FeaturesSpuriousWake(d)
    \/ \E d \in Dets : DetCheck(d)
    \/ \E d \in Dets, probability \in Probabilities : DetPredict(d, probability)

SpecFan == InitFan /\ [][NextFan]_vars

(***************************************************************************)
(* Properties of the stages and of the program                             *)
(***************************************************************************)
RECURSIVE Flatten(_)
\* the scalars of a sequence of vectors, in order
Flatten(vectors) ==
    IF vectors = <<>> THEN <<>> ELSE VCat(vectors[1], Flatten(Tail(vectors)))

\* the embedding vectors pushed into detector d's channel so far: inside the
\* fan-out loop the newest vector has reached the detectors before idx only
PushedTo(d) ==
    IF embPc = "fan" /\ embProc.idx > 1 /\ d >= embProc.idx
    THEN SubSeq(embLog, 1, Len(embLog) - 1)
    ELSE embLog

\* windows of `window` items, each `step` after the one before, in `total` items
Windows(total, window, step) ==
    IF total < window THEN 0 ELSE (total - window) \div step + 1

\* C6: under every interleaving of the embedding worker and the N detector
\* workers, what each detector has obtained from its channel, followed by
\* what still waits in that channel, is the sequence of embedding vectors
\* the embedding stage has pushed to it, in order; once all workers have
\* exited every detector has obtained the whole sequence, the same for all.
C6_FanOutFidelity ==
    /\ \A d \in Dets :
           VCat(detGot[d], featureBuffers[d].buffer) = Flatten(PushedTo(d))
    /\ (embPc = "done" /\ \A d \in Dets : detPc[d] = "done")
           => \A d \in Dets : detGot[d] = Flatten(embLog)

C6_Witness ==
    /\ numWakeWords = MaxDetectors
    /\ embPc = "done"
    /\ \A d \in Dets : detPc[d] = "done"
    /\ Len(embLog) = WAKEWORD_FEATURES
    /\ \A d \in Dets : detGot[d] = VRun(0, WAKEWORD_FEATURES * EMBEDDING_FEATURES)
    /\ \A d \in Dets : Len(predLog[d]) = 1

ExitedWorkersMarkedTheirChannels ==
    /\ melPc = "done" => melBuffer.exhausted
    /\ embPc = "done" => \A d \in Dets : featureBuffers[d].exhausted
    /\ hostPc = "stopped" =>
           /\ melPc = "done"
           /\ embPc = "done"
           /\ \A d \in Dets : detPc[d] = "done"

\* C8 (finite-run form): once the host has called stop() no worker is ended
\* by an exception leaving its thread, which would end the process before
\* stop() returns; a worker that has exited has marked its output channels
\* exhausted, and stop() returns only after every worker has exited.
C8_CooperativeShutdown ==
    /\ hostPc \in {"joinMel", "joinEmb", "exhaustFeatures", "joinDetectors",
                   "stopped"} => crashed = ""
    /\ ExitedWorkersMarkedTheirChannels

\* the workers that have called incrementReady
ReadyWorkers ==
    (IF melPc \in {"unstarted", "spawned"} THEN 0 ELSE 1)
        + (IF embPc \in {"unstarted", "spawned"} THEN 0 ELSE 1)
        + Cardinality({d \in Dets : detPc[d] \notin {"unstarted", "spawned"}})

\* C9: the ready counter always equals the number of workers that have passed
\* incrementReady, which each does once and before its first pull;
\* waitUntilReady() has returned only if all 2 + N workers have done so; and
\* under fair scheduling it does return.
C9_ReadinessBarrier ==
    /\ [](readyCount = ReadyWorkers)
    /\ [](hostPc \notin {"start", "waitUntilReady"}
              => readyCount = 2 + numWakeWords)
    /\ <>(hostPc \notin {"start", "waitUntilReady"})

C9_Witness ==
    /\ numWakeWords = MaxDetectors
    /\ hostPc = "read"
    /\ readyCount = 2 + MaxDetectors
    /\ "mel" \in audioBuffer.waiting

\* C10: when the producer has pushed k * FRAME_SAMPLES samples in all,
\* however split into batches, and the mel stage has come to its end, the mel
\* model has been invoked exactly k times, on the k consecutive frames of the
\* stream in order.
C10_ExactlyKInvocations ==
    (/\ hprod.pc = "done"
     /\ SumSeq(hprod.pushed) % FrameSize = 0
     /\ melPc = "done" \/ crashed # "")
        => melCalls = [i \in 1 .. SumSeq(hprod.pushed) \div FrameSize |->
                          VRun((i - 1) * FrameSize, FrameSize)]

\* the k invocations are made in the runs in which the mel worker leaves its
\* loop through the exit test
ExactlyKInvocationsUnlessCrashed ==
    (/\ hprod.pc = "done"
     /\ SumSeq(hprod.pushed) % FrameSize = 0
     /\ melPc = "done")
        => melCalls = [i \in 1 .. SumSeq(hprod.pushed) \div FrameSize |->
                          VRun((i - 1) * FrameSize, FrameSize)]

\* the default STEP_FRAMES, five frames pushed in two batches and the channel
\* marked exhausted before the mel worker's first pull: the ring overflows
C10_OverflowAtDefaultStepFrames ==
    /\ stepFrames = MelModelStepFrames
    /\ hprod.pc = "done"
    /\ hprod.pushed = <<10 * CHUNK_SAMPLES, 10 * CHUNK_SAMPLES>>
    /\ crashed = "overflow_error"
    /\ melCalls = <<>>

\* main() has pushed five frames and called stop() before the mel worker's
\* first pull: the ring overflows while stop() waits in melThread_.join()
C8_OverflowDuringStop ==
    /\ numWakeWords = 1
    /\ stdinPos = 5 * FrameSize
    /\ stdinLeft = 0
    /\ hostPc = "joinMel"
    /\ crashed = "overflow_error"
    /\ melCalls = <<>>

\* the embedding vector the model returns for the window that starts at mel
\* frame EMBEDDING_STEP_SIZE * i of the stream
EmbeddingOfWindow(i) ==
    ExtractEmbeddings(VRun(EMBEDDING_STEP_SIZE * i * NUM_MELS,
                           EMBEDDING_WINDOW_SIZE * NUM_MELS))

\* the embedding vectors of the first n windows of the stream
EmbeddingsOfWindows(n) == [i \in 1 .. n |-> EmbeddingOfWindow(i - 1)]

\* C11: when the producer has pushed m >= 76 mel frames in all, however split
\* into batches, and the embedding stage has come to its end, the embedding
\* model has been invoked and its vector emitted exactly
\* 1 + (m - 76) \div 8 times, the i-th time on the window that starts at mel
\* frame 8 * i.
C11_ExactlyWindowCountEmbeddings ==
    LET m == SumSeq(hprod.pushed) \div NUM_MELS
    IN  (/\ hprod.pc = "done"
         /\ m >= EMBEDDING_WINDOW_SIZE
         /\ embPc = "done" \/ crashed # "")
            => embLog = EmbeddingsOfWindows(
                   1 + (m - EMBEDDING_WINDOW_SIZE) \div EMBEDDING_STEP_SIZE)

\* the windows are all processed in the runs in which the embedding worker
\* leaves its loop through the exit test
WindowCountEmbeddingsUnlessCrashed ==
    LET m == SumSeq(hprod.pushed) \div NUM_MELS
    IN  (hprod.pc = "done" /\ m >= EMBEDDING_WINDOW_SIZE /\ embPc = "done")
            => embLog = EmbeddingsOfWindows(
                   1 + (m - EMBEDDING_WINDOW_SIZE) \div EMBEDDING_STEP_SIZE)

\* four batches of 40 mel frames wait in the mel channel at the embedding
\* worker's pull: 160 mel frames do not fit the ring of 152
C11_OverflowOnCoalescedMels ==
    /\ hprod.pc = "done"
    /\ Len(hprod.pushed) = 4
    /\ crashed = "overflow_error"
    /\ embProc.ring.size = 0
    /\ VLen(embProc.mels) = 4 * 40 * NUM_MELS
    /\ embLog = <<>>

(***************************************************************************)
(* WakeWordDetector::run on its own: a producer pushes batches of          *)
(* consecutive embedding vectors into the detector's channel and then      *)
(* marks it exhausted.                                                     *)
(***************************************************************************)
\* the most embedding vectors the producer pushes in all
MaxFeedEmbeddings == 20

\* the batch sizes the producer pushes, in embedding vectors
FeatureBatchEmbeddings == {1, 3, WAKEWORD_FEATURES}

FeedFeatures(embeddings) ==
    /\ crashed = ""
    /\ hprod.pc = "push"
    /\ Len(hprod.pushed) < MaxFeeds
    /\ SumSeq(hprod.pushed) + embeddings * EMBEDDING_FEATURES
           <= MaxFeedEmbeddings * EMBEDDING_FEATURES
    /\ featureBuffers' \in
          {[featureBuffers EXCEPT ![1] = b] :
              b \in TSB_NotifyOne(
                        TSB_Push(featureBuffers[1],
                                 VRun(SumSeq(hprod.pushed),
                                      embeddings * EMBEDDING_FEATURES)))}
    /\ hprod' = [hprod EXCEPT !.pushed = Append(@, embeddings * EMBEDDING_FEATURES)]
    /\ UNCHANGED <<hch, hcons, running, readyvars, audioBuffer, melBuffer,
                   hostvars, melvars, embvars, detvars, crashed, melCalls, embLog,
                   detGot, srcvars, dvars, cfgvars>>

FeedFeaturesExhausted ==
    /\ crashed = ""
    /\ hprod.pc = "push"
    /\ featureBuffers' \in
          {[featureBuffers EXCEPT ![1] = b] :
              b \in TSB_NotifyOne(TSB_SetExhausted(featureBuffers[1], TRUE))}
    /\ hprod' = [hprod EXCEPT !.pc = "done"]
    /\ UNCHANGED <<hch, hcons, running, readyvars, audioBuffer, melBuffer,
                   hostvars, melvars, embvars, detvars, crashed, melCalls, embLog,
                   detGot, srcvars, dvars, cfgvars>>

\* run() has been entered by the detector only
DetRunning ==
    [host |-> "unstarted", mel |-> "unstarted", emb |-> "unstarted", det |-> "pull"]

InitDetRun ==
    /\ hch = TSB_New
    /\ hprod = [pc |-> "push", pushed |-> <<>>]
    /\ hcons = << >>
    /\ DetectorsInit(<< EagerWakeWordConfig >>)
    /\ PipelineInit(1, MelModelStepFrames, 0, DetRunning)

NextDetRun ==
    \/ \E embeddings \in FeatureBatchEmbeddings : FeedFeatures(embeddings)
    \/ FeedFeaturesExhausted
    \/ DetPull(1)
    \/ FeaturesSpuriousWake(1)
    \/ DetCheck(1)
    \/ \E probability \in Probabilities : DetPredict(1, probability)

SpecDetRun == InitDetRun /\ [][NextDetRun]_vars

ChanConsumers == {"c1", "c2"}

\* the most pulls one consumer makes
MaxPulls == 3

OpsPush(size) ==
    /\ Len(hprod.pushed) < MaxPushes
    /\ hch' \in TSB_NotifyOne(TSB_Push(hch, VRun(SumSeq(hprod.pushed), size)))
    /\ hprod' = [hprod EXCEPT !.pushed = Append(@, size)]
    /\ UNCHANGED <<hcons, dvars, cfgvars, srcvars, pvars>>

OpsSetExhausted ==
    /\ hprod.pc = "push"
    /\ hch' \in TSB_NotifyOne(TSB_SetExhausted(hch, TRUE))
    /\ hprod' = [hprod EXCEPT !.pc = "exhausted", !.mark = SumSeq(hprod.pushed)]
    /\ UNCHANGED <<hcons, dvars, cfgvars, srcvars, pvars>>

OpsPull(c) ==
    /\ hcons[c].pulls < MaxPulls
    /\ \/ hcons[c].pc = "pull"
       \/ hcons[c].pc = "blocked" /\ c \notin hch.waiting
    /\ IF TSB_CanPull(hch)
       THEN LET result == TSB_PullResult(hch)
            IN  /\ hch' = TSB_PullState(hch)
                /\ hcons' = [hcons EXCEPT
                       ![c].got = VCat(@, result),
                       ![c].pulls = @ + 1,
                       ![c].pc = "pull",
                       ![c].late = IF hprod.drained THEN VCat(@, result) ELSE @]
                /\ hprod' = [hprod EXCEPT !.drained =
                                 @ \/ (hch.exhausted /\ result = <<>>)]
       ELSE /\ hch' = TSB_Sleep(hch, c)
            /\ hcons' = [hcons EXCEPT ![c].pc = "blocked",
                                      ![c].sleptLate = @ \/ hprod.drained]
            /\ UNCHANGED hprod
    /\ UNCHANGED <<dvars, cfgvars, srcvars, pvars>>

OpsSpuriousWake(c) ==
    /\ c \in hch.waiting
    /\ hch' = [hch EXCEPT !.waiting = @ \ {c}]
    /\ UNCHANGED <<hprod, hcons, dvars, cfgvars, srcvars, pvars>>

InitChanOps ==
    /\ hch = TSB_New
    /\ hprod = [pc |-> "push", pushed |-> <<>>, mark |-> 0 - 1, drained |-> FALSE]
    /\ hcons = [c \in ChanConsumers |->
                   [pc |-> "pull", got |-> <<>>, pulls |-> 0, late |-> <<>>,
                    sleptLate |-> FALSE]]
    /\ DetectorsInit(<< >>)
    /\ PipelineInit(0, MelModelStepFrames, 0, NotStarted)

NextChanOps ==
    \/ \E size \in 0 .. MaxBatch : OpsPush(size)
    \/ OpsSetExhausted
    \/ \E c \in ChanConsumers : OpsPull(c)
    \/ \E c \in ChanConsumers : OpsSpuriousWake(c)

SpecChanOps == InitChanOps /\ [][NextChanOps]_vars

\* C13: once setExhausted(true) has been called and a pull has returned an
\* empty batch, every later pull returns an empty batch and puts no consumer
\* to sleep, whatever channel operations follow; the consumers together
\* obtain nothing pushed after the call.
C13_NothingAfterDrain ==
    /\ \A c \in ChanConsumers : hcons[c].late = <<>> /\ ~hcons[c].sleptLate
    /\ hprod.pc = "exhausted" =>
           VLen(hcons["c1"].got) + VLen(hcons["c2"].got) <= hprod.mark

\* the part of C13 about blocking: no pull sleeps after the drain
NoSleepAfterDrain == \A c \in ChanConsumers : ~hcons[c].sleptLate

\* setExhausted(true), an empty pull, then a push of one scalar, which the
\* next pull hands to a consumer
C13_DataAfterDrain ==
    /\ hprod.pc = "exhausted"
    /\ hprod.mark = 0
    /\ hprod.pushed = <<1>>
    /\ hprod.drained
    /\ hcons["c1"].pulls = 2
    /\ hcons["c1"].late = VRun(0, 1)

\* C14 (finite-run form): setExhausted(true) leaves no consumer asleep in
\* pull: the call wakes every waiter, and a pull that starts after it finds
\* the wait predicate true.
C14_SetExhaustedWakesAll ==
    hch.exhausted => hch.waiting = {}

\* both consumers sleep in pull on the empty channel when setExhausted(true)
\* is called; its notify_one wakes one of them and the other sleeps on
C14_WaiterLeftAsleep ==
    /\ hprod.pc = "exhausted"
    /\ hprod.pushed = <<>>
    /\ hch.exhausted
    /\ hch.waiting = {"c2"}
    /\ hcons["c1"].pc = "blocked"
    /\ hcons["c2"].pc = "blocked"
    /\ hcons["c2"].pulls = 0

\* C15: whatever STEP_FRAMES is configured, every frame the mel stage pops
\* has exactly FRAME_SAMPLES = STEP_FRAMES * 1280 samples and the mel model
\* carries out the invocation on it: no frame is rejected for its length.
C15_FrameAcceptedAtEveryStepFrames ==
    /\ VLen(melProc.frameSamples) = FrameSize
    /\ crashed # "invalid_argument"
    /\ \A i \in 1 .. Len(melCalls) : VLen(melCalls[i]) = FrameSize

\* every frame popped has exactly FRAME_SAMPLES samples
PopsExactlyFrameSize == VLen(melProc.frameSamples) = FrameSize

\* STEP_FRAMES = 2: the first frame of 2560 samples is popped and rejected
C15_RejectedAtStepFrames2 ==
    /\ stepFrames = 2
    /\ hprod.pushed = <<2 * CHUNK_SAMPLES>>
    /\ melProc.frameSamples = VRun(0, 2 * CHUNK_SAMPLES)
    /\ crashed = "invalid_argument"
    /\ melCalls = <<>>

(***************************************************************************)
(* SIGINT / SIGTERM.  signalHandler runs on the thread the signal is       *)
(* delivered to, in place of what that thread was doing: it calls          *)
(* g_pipeline->stop() and then exit(0), which destroys g_pipeline.         *)
(* ~Pipeline calls stop() again and then destroys the std::thread members; *)
(* destroying one that is still joinable calls std::terminate.  On the     *)
(* host thread the handler's stop() is at "sigJoinMel", "sigJoinEmb",      *)
(* "sigExhaustFeatures", "sigJoinDetectors"; "exit0" is the process        *)
(* exited with status 0.                                                   *)
(***************************************************************************)
\* the host positions inside a stop() that has set running_ to false and has
\* not yet returned
InsideStop ==
    {"joinMel", "joinEmb", "exhaustFeatures", "joinDetectors",
     "sigJoinMel", "sigJoinEmb", "sigExhaustFeatures", "sigJoinDetectors"}

\* the signal is delivered to the host thread
SignalOnHost ==
    /\ crashed = ""
    /\ hostPc \notin {"unstarted", "exit0"}
    /\ IF running
       THEN /\ running' = FALSE
            /\ audioBuffer' \in TSB_NotifyOne(TSB_SetExhausted(audioBuffer, TRUE))
            /\ hostPc' = "sigJoinMel"
            /\ UNCHANGED crashed
       ELSE IF hostPc \in InsideStop
       THEN /\ crashed' = "terminate"
            /\ UNCHANGED <<running, audioBuffer, hostPc>>
       ELSE /\ hostPc' = "exit0"
            /\ UNCHANGED <<running, audioBuffer, crashed>>
    /\ UNCHANGED <<readyvars, melBuffer, featureBuffers, hostIdx, melvars, embvars,
                   detvars, melCalls, embLog, detGot, srcvars, dvars, hvars,
                   cfgvars>>

\* the handler's stop(): melThread_.join(); melBuffer_->setExhausted(true)
SigJoinMel ==
    /\ crashed = ""
    /\ hostPc = "sigJoinMel"
    /\ melPc = "done"
    /\ melBuffer' \in TSB_NotifyOne(TSB_SetExhausted(melBuffer, TRUE))
    /\ hostPc' = "sigJoinEmb"
    /\ UNCHANGED <<running, readyvars, audioBuffer, featureBuffers, hostIdx, melvars,
                   embvars, detvars, crashed, melCalls, embLog, detGot, srcvars,
                   dvars, hvars, cfgvars>>

\* the handler's stop(): embeddingThread_.join()
SigJoinEmb ==
    /\ crashed = ""
    /\ hostPc = "sigJoinEmb"
    /\ embPc = "done"
    /\ hostPc' = "sigExhaustFeatures"
    /\ hostIdx' = 1
    /\ UNCHANGED <<running, readyvars, audioBuffer, melBuffer, featureBuffers,
                   melvars, embvars, detvars, crashed, melCalls, embLog, detGot,
                   srcvars, dvars, hvars, cfgvars>>

\* the handler's stop(): the setExhausted loop over featureBuffers_
SigExhaustFeature ==
    /\ crashed = ""
    /\ hostPc = "sigExhaustFeatures"
    /\ featureBuffers' \in
          {[featureBuffers EXCEPT ![hostIdx] = b] :
              b \in TSB_NotifyOne(TSB_SetExhausted(featureBuffers[hostIdx], TRUE))}
    /\ IF hostIdx = numWakeWords
       THEN hostPc' = "sigJoinDetectors" /\ hostIdx' = 1
       ELSE hostIdx' = hostIdx + 1 /\ UNCHANGED hostPc
    /\ UNCHANGED <<running, readyvars, audioBuffer, melBuffer, melvars, embvars,
                   detvars, crashed, melCalls, embLog, detGot, srcvars, dvars,
                   hvars, cfgvars>>

\* the handler's stop(): the join loop over detectorThreads_; after the last
\* join stop() returns and exit(0) finds no joinable thread
SigJoinDetector ==
    /\ crashed = ""
    /\ hostPc = "sigJoinDetectors"
    /\ detPc[hostIdx] = "done"
    /\ IF hostIdx = numWakeWords
       THEN hostPc' = "exit0" /\ UNCHANGED hostIdx
       ELSE hostIdx' = hostIdx + 1 /\ UNCHANGED hostPc
    /\ UNCHANGED <<running, readyvars, audioBuffer, melBuffer, featureBuffers,
                   melvars, embvars, detvars, crashed, melCalls, embLog, detGot,
                   srcvars, dvars, hvars, cfgvars>>

\* the signal is delivered to the mel worker thread: the handler's stop()
\* reaches melThread_.join() on the mel thread itself, which throws
\* std::system_error; with running_ already false the handler goes straight
\* to exit(0), and ~Pipeline destroys the joinable melThread_
SignalOnMel ==
    /\ crashed = ""
    /\ hostPc # "exit0"
    /\ melPc \notin {"unstarted", "done"}
    /\ IF running
       THEN /\ running' = FALSE
            /\ audioBuffer' \in TSB_NotifyOne(TSB_SetExhausted(audioBuffer, TRUE))
            /\ crashed' = "resource_deadlock_would_occur"
       ELSE /\ crashed' = "terminate"
            /\ UNCHANGED <<running, audioBuffer>>
    /\ UNCHANGED <<readyvars, melBuffer, featureBuffers, hostvars, melvars, embvars,
                   detvars, melCalls, embLog, detGot, srcvars, dvars, hvars,
                   cfgvars>>

\* the most frames the audio source holds in the runs with signals
MaxSignalFrames == 10

InitSignal ==
    /\ HarnessIdle
    /\ DetectorsInit(<< EagerWakeWordConfig >>)
    /\ \E frames \in {0, MaxSignalFrames} :
           PipelineInit(1, MelModelStepFrames,
                        frames * MelModelStepFrames * CHUNK_SAMPLES, BeforeStart)

SignalSteps ==
    \/ SignalOnHost
    \/ SigJoinMel
    \/ SigJoinEmb
    \/ SigExhaustFeature
    \/ SigJoinDetector
    \/ SignalOnMel

NextSignal ==
    \/ HostSteps
    \/ MelSteps
    \/ EmbSteps
    \/ \E d \in Dets : DetReady(d)
    \/ \E d \in Dets : DetPull(d)
    \/ \E d \in Dets : DetCheck(d)
    \/ \E d \in Dets, probability \in Probabilities : DetPredict(d, probability)
    \/ SpuriousWakes
    \/ SignalSteps

SpecSignal == InitSignal /\ [][NextSignal]_vars

\* every worker thread that was started has exited and been joined, and
\* nothing is left in a channel
WorkersDrainedAndJoined ==
    /\ melPc \in {"unstarted", "done"}
    /\ embPc \in {"unstarted", "done"}
    /\ \A d \in Dets : detPc[d] \in {"unstarted", "done"}
    /\ audioBuffer.buffer = <<>>
    /\ melBuffer.buffer = <<>>
    /\ \A d \in Dets : featureBuffers[d].buffer = <<>>

\* C16 (finite-run form): a signal delivered at any point and on any thread
\* never ends the process through std::terminate or a self-join, and when
\* the process has exited with status 0 every worker has been drained and
\* joined.
C16_SignalCleanShutdown ==
    /\ crashed \notin {"terminate", "resource_deadlock_would_occur"}
    /\ hostPc = "exit0" => WorkersDrainedAndJoined

\* whenever the process does exit with status 0 the shutdown was clean
ExitZeroIsClean == hostPc = "exit0" => WorkersDrainedAndJoined

\* the signal arrives on the host thread while main()'s stop() waits in
\* melThread_.join(): the handler's stop() returns at once and exit(0)
\* destroys the joinable threads
C16_SignalDuringStop ==
    /\ hostPc = "joinMel"
    /\ melPc \notin {"unstarted", "done"}
    /\ crashed = "terminate"

\* the signal arrives on the mel worker thread while the pipeline runs
SelfJoinOnMelWorker ==
    /\ hostPc = "read"
    /\ ~running
    /\ audioBuffer.exhausted
    /\ crashed = "resource_deadlock_would_occur"

(***************************************************************************)
(* Emission.  processPrediction step by step, with outputMutex_: the       *)
(* detectors run WakeWordDetector::run on channels that each receive one   *)
(* batch of embeddings and are then marked exhausted.  A detector is at    *)
(* "debugLock" / "eventLock" before the constructor of a unique_lock on    *)
(* outputMutex, at "debugWrite" / "eventHead" / "eventTail" inside the     *)
(* locked block (the event is written in two parts), at "predict" before   *)
(* model_->predict.                                                        *)
(***************************************************************************)
\* the lock can be taken at once
OutputMutexFree_Always(mutex) == TRUE

\* std::unique_lock<std::mutex> lock(outputMutex) waits until the mutex is free
OutputMutexFree(mutex) == mutex = 0

\* the positions inside a locked block
WritingPcs == {"debugWrite", "eventHead", "eventTail"}

\* embeddings in the batch a detector's channel receives
EmitBatchEmbeddings == WAKEWORD_FEATURES + 1

\* the embedding stage pushes a batch into detector d's channel
EmitFeed(d) ==
    /\ crashed = ""
    /\ ~featureBuffers[d].exhausted
    /\ featureBuffers[d].buffer = <<>>
    /\ detGot[d] = <<>>
    /\ featureBuffers' \in
          {[featureBuffers EXCEPT ![d] = b] :
              b \in TSB_NotifyOne(
                        TSB_Push(featureBuffers[d],
                                 VRun(0, EmitBatchEmbeddings * EMBEDDING_FEATURES)))}
    /\ UNCHANGED <<running, readyvars, audioBuffer, melBuffer, hostvars, melvars,
                   embvars, detvars, crashed, melCalls, embLog, detGot, srcvars,
                   dvars, hvars, cfgvars>>

\* detector d's channel is marked exhausted
EmitExhaust(d) ==
    /\ crashed = ""
    /\ ~featureBuffers[d].exhausted
    /\ featureBuffers' \in
          {[featureBuffers EXCEPT ![d] = b] :
              b \in TSB_NotifyOne(TSB_SetExhausted(featureBuffers[d], TRUE))}
    /\ UNCHANGED <<running, readyvars, audioBuffer, melBuffer, hostvars, melvars,
                   embvars, detvars, crashed, melCalls, embLog, detGot, srcvars,
                   dvars, hvars, cfgvars>>

\* the end of processPrediction and of the pass of the inner loop: the
\* counter takes its new value and the window slides by one embedding
DetFinish(d, fired) ==
    LET r    == ProcessPrediction(activationCount[d], wwConfig[d],
                                  detProc'[d].probability)
        todo == DetSlide(detProc[d].todoFeatures)
    IN  /\ activationCount' = [activationCount EXCEPT ![d] = r.a]
        /\ predLog' = [predLog EXCEPT
               ![d] = Append(@, <<detProc'[d].probability, fired>>)]
        /\ detPc' = [detPc EXCEPT ![d] =
               IF VLen(todo) \div EMBEDDING_FEATURES >= WAKEWORD_FEATURES
               THEN "predict" ELSE "pull"]

\* after the debug block: the threshold and trigger-level tests
DetDecide(d, probability) ==
    IF ProcessPrediction(activationCount[d], wwConfig[d], probability).fired
    THEN /\ detPc' = [detPc EXCEPT ![d] = "eventLock"]
         /\ detProc' = [detProc EXCEPT ![d].probability = probability]
         /\ UNCHANGED <<activationCount, predLog>>
    ELSE /\ detProc' = [detProc EXCEPT
                ![d].probability = probability,
                ![d].todoFeatures = DetSlide(@)]
         /\ DetFinish(d, FALSE)

\* float probability = model_->predict(windowFeatures); if (config_.debug)
DetInfer(d, probability) ==
    /\ crashed = ""
    /\ detPc[d] = "predict"
    /\ IF WakeWordModelRejects(VTake(detProc[d].todoFeatures,
                                     WAKEWORD_FEATURES * EMBEDDING_FEATURES))
       THEN /\ crashed' = "invalid_argument"
            /\ UNCHANGED <<detvars, activationCount, predLog>>
       ELSE /\ IF wwConfig[d].debug
               THEN /\ detPc' = [detPc EXCEPT ![d] = "debugLock"]
                    /\ detProc' = [detProc EXCEPT ![d].probability = probability]
                    /\ UNCHANGED <<activationCount, predLog>>
               ELSE DetDecide(d, probability)
            /\ UNCHANGED crashed
    /\ UNCHANGED <<running, readyvars, audioBuffer, melBuffer, featureBuffers,
                   hostvars, melvars, embvars, melCalls, embLog, detGot, srcvars,
                   wwConfig, stdoutLog, stderrLines, outputMutex, hvars, cfgvars>>

\* std::unique_lock<std::mutex> lock(outputMutex) of the debug block
DetDebugLock(d) ==
    /\ crashed = ""
    /\ detPc[d] = "debugLock"
    /\ OutputMutexFree(outputMutex)
    /\ outputMutex' = d
    /\ detPc' = [detPc EXCEPT ![d] = "debugWrite"]
    /\ UNCHANGED <<running, readyvars, audioBuffer, melBuffer, featureBuffers,
                   hostvars, melvars, embvars, detProc, crashed, melCalls, embLog,
                   detGot, srcvars, wwConfig, activationCount, predLog, stdoutLog,
                   stderrLines, hvars, cfgvars>>

\* std::cerr << wakeWord_ << " " << probability << std::endl; the lock is
\* released at the end of the block
DetDebugWrite(d) ==
    /\ crashed = ""
    /\ detPc[d] = "debugWrite"
    /\ stderrLines' = [stderrLines EXCEPT ![d] = @ + 1]
    /\ outputMutex' = 0
    /\ DetDecide(d, detProc[d].probability)
    /\ UNCHANGED <<running, readyvars, audioBuffer, melBuffer, featureBuffers,
                   hostvars, melvars, embvars, crashed, melCalls, embLog, detGot,
                   srcvars, wwConfig, stdoutLog, hvars, cfgvars>>

\* std::unique_lock<std::mutex> lock(outputMutex) of the detection block
DetEventLock(d) ==
    /\ crashed = ""
    /\ detPc[d] = "eventLock"
    /\ OutputMutexFree(outputMutex)
    /\ outputMutex' = d
    /\ detPc' = [detPc EXCEPT ![d] = "eventHead"]
    /\ UNCHANGED <<running, readyvars, audioBuffer, melBuffer, featureBuffers,
                   hostvars, melvars, embvars, detProc, crashed, melCalls, embLog,
                   detGot, srcvars, wwConfig, activationCount, predLog, stdoutLog,
                   stderrLines, hvars, cfgvars>>

\* the first writes of the event: the timestamp or the opening of the record
DetEventHead(d) ==
    /\ crashed = ""
    /\ detPc[d] = "eventHead"
    /\ detPc' = [detPc EXCEPT ![d] = "eventTail"]
    /\ UNCHANGED <<running, readyvars, audioBuffer, melBuffer, featureBuffers,
                   hostvars, melvars, embvars, detProc, crashed, melCalls, embLog,
                   detGot, srcvars, dvars, hvars, cfgvars>>

\* the last write of the event, with std::endl; the lock is released at the
\* end of the block; activationCount_ = -config_.refractorySteps
DetEventTail(d) ==
    /\ crashed = ""
    /\ detPc[d] = "eventTail"
    /\ stdoutLog' = Append(stdoutLog, d)
    /\ outputMutex' = 0
    /\ detProc' = [detProc EXCEPT ![d].todoFeatures = DetSlide(@)]
    /\ DetFinish(d, TRUE)
    /\ UNCHANGED <<running, readyvars, audioBuffer, melBuffer, featureBuffers,
                   hostvars, melvars, embvars, crashed, melCalls, embLog, detGot,
                   srcvars, wwConfig, stderrLines, hvars, cfgvars>>

\* the configuration of a keyword that fires on every hit
HairTriggerConfig(debug) ==
    [threshold |-> 5, triggerLevel |-> 1, refractorySteps |-> 0, debug |-> debug]

InitEmit ==
    /\ hch = TSB_New
    /\ hprod = [pc |-> "push", pushed |-> <<>>]
    /\ hcons = << >>
    /\ \E debug \in [1 .. MaxDetectors -> BOOLEAN] :
           DetectorsInit([d \in 1 .. MaxDetectors |-> HairTriggerConfig(debug[d])])
    /\ PipelineInit(MaxDetectors, MelModelStepFrames, 0, DetRunning)

NextEmit ==
    \/ \E d \in Dets : EmitFeed(d)
    \/ \E d \in Dets : EmitExhaust(d)
    \/ \E d \in Dets : DetPull(d)
    \/ \E d \in Dets : FeaturesSpuriousWake(d)
    \/ \E d \in Dets : DetCheck(d)
    \/ \E d \in Dets, probability \in Probabilities : DetInfer(d, probability)
    \/ \E d \in Dets : DetDebugLock(d)
    \/ \E d \in Dets : DetDebugWrite(d)
    \/ \E d \in Dets : DetEventLock(d)
    \/ \E d \in Dets : DetEventHead(d)
    \/ \E d \in Dets : DetEventTail(d)

SpecEmit == InitEmit /\ [][NextEmit]_vars

\* C17: at any time at most one detector is inside a locked block writing a
\* debug line or a detection event, so the parts of one event are never
\* separated by another detector's output; a detector holds the output
\* mutex exactly while it is inside such a block, which contains one write:
\* never while it runs inference, waits for the lock, or pulls.
C17_EmissionAtomic ==
    /\ Cardinality({d \in Dets : detPc[d] \in WritingPcs}) <= 1
    /\ \A d \in Dets : outputMutex = d <=> detPc[d] \in WritingPcs
    /\ \A d \in Dets : d \in featureBuffers[d].waiting => outputMutex # d

C17_Witness ==
    /\ outputMutex = 1
    /\ detPc[1] = "eventTail"
    /\ detPc[2] = "eventLock"
    /\ stdoutLog = <<2, 1>>
    /\ stderrLines[2] = 2

(***************************************************************************)
(* Determinism.  The program on one fixed audio stream, with a keyword     *)
(* model that is a function of its input window: every run of this         *)
(* specification is an execution on the same stream, configuration and     *)
(* models, and the runs differ in scheduling only.                         *)
(***************************************************************************)
\* the keyword model: above the threshold on the windows that start at an
\* even embedding of the stream, below it on the others
KeywordModel(windowFeatures) ==
    IF (VFirst(windowFeatures) \div EMBEDDING_FEATURES) % 2 = 0 THEN 6 ELSE 4

\* one pass of detector d's inner loop with that model
DetPredictByModel(d) ==
    DetPredict(d, KeywordModel(VTake(detProc[d].todoFeatures,
                                     WAKEWORD_FEATURES * EMBEDDING_FEATURES)))

\* the frames of the fixed audio stream
FixedStreamFrames == 10

InitFixed ==
    /\ HarnessIdle
    /\ DetectorsInit(<< EagerWakeWordConfig >>)
    /\ PipelineInit(1, MelModelStepFrames,
                    FixedStreamFrames * MelModelStepFrames * CHUNK_SAMPLES,
                    BeforeStart)

NextFixed ==
    \/ HostSteps
    \/ MelSteps
    \/ EmbSteps
    \/ \E d \in Dets : DetReady(d)
    \/ \E d \in Dets : DetPull(d)
    \/ \E d \in Dets : DetCheck(d)
    \/ \E d \in Dets : DetPredictByModel(d)
    \/ SpuriousWakes

SpecFixed == InitFixed /\ [][NextFixed]_vars

RECURSIVE EventsAfter(_, _, _, _)
\* the detection events of detector d over predictions i .. n of the stream,
\* from activation counter a: processPrediction applied one window after
\* the other
EventsAfter(d, i, n, a) ==
    IF i > n THEN <<>>
    ELSE LET r == ProcessPrediction(a, wwConfig[d],
                      KeywordModel(VRun((i - 1) * EMBEDDING_FEATURES,
                                        WAKEWORD_FEATURES * EMBEDDING_FEATURES)))
         IN  (IF r.fired THEN <<d>> ELSE <<>>) \o EventsAfter(d, i + 1, n, r.a)

\* the detection events of the fixed stream: those of the predictions on all
\* its windows, in order
EventsOfStream ==
    LET melFrames  == FixedStreamFrames * stepFrames * MelFramesPerChunk
        embeddings == Windows(melFrames, EMBEDDING_WINDOW_SIZE, EMBEDDING_STEP_SIZE)
    IN  EventsAfter(1, 1, Windows(embeddings, WAKEWORD_FEATURES, 1), 0)

\* the process has ended: stop() has returned, or an exception has left a
\* worker thread
Ended == hostPc = "stopped" \/ crashed # ""

\* C18: every execution on the fixed stream ends with the same sequence of
\* detection events, the one the predictions on the stream's windows give,
\* whatever the scheduling and however the pulls coalesced the batches.
C18_SameEventsInEveryRun == Ended => stdoutLog = EventsOfStream

\* the executions in which stop() returns all emit the events of the stream
SameEventsWhenStopReturns == hostPc = "stopped" => stdoutLog = EventsOfStream

\* an execution in which the mel worker's first pull coalesces five frames:
\* the ring overflows and no event is emitted
C18_NoEventAfterOverflow ==
    /\ crashed = "overflow_error"
    /\ melCalls = <<>>
    /\ stdoutLog = <<>>
    /\ EventsOfStream = <<1>>

\* an execution in which stop() returns: the event of the stream is emitted
EventEmittedWhenStopReturns ==
    /\ hostPc = "stopped"
    /\ stdoutLog = <<1>>

(***************************************************************************)
(* The mel stage with a mel model whose output tensor may be malformed:    *)
(* empty, or with an element count that is not a multiple of NUM_MELS.     *)
(* Nothing pulls from the mel channel here, so its buffer is all that the  *)
(* stage has pushed.                                                       *)
(***************************************************************************)
\* the element counts the mel model returns
MelOutputCounts == {0, NUM_MELS + 1, MelOutputCount}

InitMelOutput ==
    /\ hch = TSB_New
    /\ hprod = [pc |-> "push", pushed |-> <<>>]
    /\ hcons = << >>
    /\ DetectorsInit(<< >>)
    /\ PipelineInit(0, MelModelStepFrames, 0, MelRunning)

NextMelOutput ==
    \/ \E chunks \in AudioBatchChunks : FeedAudio(chunks)
    \/ FeedAudioExhausted
    \/ MelPull
    \/ AudioSpuriousWake
    \/ MelCheck
    \/ \E melCount \in MelOutputCounts : MelFrameReturning(melCount)
    \/ MelSetExhausted

SpecMelOutput == InitMelOutput /\ [][NextMelOutput]_vars

\* C19: the mel channel receives only well-formed model outputs: what the
\* stage has pushed is a whole number of mel frames, at least one for every
\* model invocation that the stage went on from, so an empty output or one
\* whose element count is not a multiple of 32 is never pushed.
C19_MalformedOutputNotPushed ==
    /\ VLen(melBuffer.buffer) % NUM_MELS = 0
    /\ VLen(melBuffer.buffer) >= NUM_MELS * Len(melCalls)

\* the model returns 33 elements for the first frame; the stage pushes them
\* and goes on to its next pull
C19_MalformedMelsPushed ==
    /\ Len(melCalls) = 1
    /\ VLen(melBuffer.buffer) = NUM_MELS + 1
    /\ crashed = ""
    /\ melPc = "pull"

\* the model returns no element for the first frame; the stage pushes the
\* empty batch, which marks the channel ready, and goes on
EmptyMelsPushed ==
    /\ Len(melCalls) = 1
    /\ melBuffer.buffer = <<>>
    /\ melBuffer.ready
    /\ ~melBuffer.exhausted
    /\ crashed = ""

(***************************************************************************)
(* Inference errors.  The program on the fixed stream, with a backend      *)
(* whose session_->Run may throw in any model run.  No function between    *)
(* runInference and the thread function catches, so the exception leaves   *)
(* the thread and std::terminate ends the process.                         *)
(***************************************************************************)
\* the mel model's run throws on the frame just popped
MelBackendThrows ==
    /\ crashed = ""
    /\ melPc = "frame"
    /\ LET popped == RB_Pop(melProc.ring, melProc.frameSamples, FrameSize)
       IN  /\ ~MelModelRejects(popped.output)
           /\ melProc' = [melProc EXCEPT !.ring = popped.rb,
                                         !.frameSamples = popped.output]
    /\ crashed' = "Ort::Exception"
    /\ UNCHANGED <<running, readyvars, audioBuffer, melBuffer, featureBuffers,
                   hostvars, melPc, embvars, detvars, melCalls, embLog, detGot,
                   srcvars, dvars, hvars, cfgvars>>

\* the embedding model's run throws on the window just peeked
EmbBackendThrows ==
    /\ crashed = ""
    /\ embPc = "fan"
    /\ embProc.idx = 1
    /\ LET windowMels == RB_Peek(embProc.ring, embProc.windowMels,
                                 EMBEDDING_WINDOW_SIZE * NUM_MELS, 0).output
       IN  /\ ~EmbModelRejects(windowMels)
           /\ embProc' = [embProc EXCEPT !.windowMels = windowMels]
    /\ crashed' = "Ort::Exception"
    /\ UNCHANGED <<running, readyvars, audioBuffer, melBuffer, featureBuffers,
                   hostvars, melvars, embPc, detvars, melCalls, embLog, detGot,
                   srcvars, dvars, hvars, cfgvars>>

\* detector d's keyword model's run throws
DetBackendThrows(d) ==
    /\ crashed = ""
    /\ detPc[d] = "predict"
    /\ ~WakeWordModelRejects(VTake(detProc[d].todoFeatures,
                                   WAKEWORD_FEATURES * EMBEDDING_FEATURES))
    /\ crashed' = "Ort::Exception"
    /\ UNCHANGED <<running, readyvars, audioBuffer, melBuffer, featureBuffers,
                   hostvars, melvars, embvars, detvars, melCalls, embLog, detGot,
                   srcvars, dvars, hvars, cfgvars>>

NextThrow ==
    \/ HostSteps
    \/ MelSteps
    \/ EmbSteps
    \/ \E d \in Dets : DetReady(d)
    \/ \E d \in Dets : DetPull(d)
    \/ \E d \in Dets : DetCheck(d)
    \/ \E d \in Dets : DetPredictByModel(d)
    \/ SpuriousWakes
    \/ MelBackendThrows
    \/ EmbBackendThrows
    \/ \E d \in Dets : DetBackendThrows(d)

SpecThrow == InitFixed /\ [][NextThrow]_vars

\* how the process has ended: 0 after main() returned, "SIGABRT" after
\* std::terminate, "none" while it runs; no statement of the program exits
\* with status 1 once the pipeline has started
ExitStatus ==
    IF crashed # "" THEN "SIGABRT"
    ELSE IF hostPc = "stopped" THEN "0"
    ELSE "none"

\* C20: when the backend has thrown during a model run in a worker, the
\* process ends with exit status 1.
C20_InferenceErrorExitsWith1 ==
    crashed = "Ort::Exception" => ExitStatus = "1"

\* the keyword model's run throws on the first window of detector 1: the
\* process is ended by std::terminate
C20_TerminateOnInferenceError ==
    /\ crashed = "Ort::Exception"
    /\ detPc[1] = "predict"
    /\ predLog[1] = <<>>
    /\ ExitStatus = "SIGABRT"

(***************************************************************************)
(* Config::parseArgs and Config::validate, and main() up to                *)
(* Pipeline::start.  The Config object being filled is hch; hprod.pushed   *)
(* lists the options parsed so far.  Thresholds are in tenths.  A false    *)
(* result of parseArgs is main's `return 1` ("exit1").                     *)
(***************************************************************************)
\* the members of a default-constructed Config; filesExist stands for the
\* std::filesystem::exists tests of validate on the configured paths
ConfigDefaults(filesExist) ==
    [threshold |-> 5, triggerLevel |-> 4, refractorySteps |-> 20,
     stepFrames |-> 4, debug |-> FALSE, models |-> 0, filesExist |-> filesExist]

\* options of the command line at most
MaxArgs == 3

\* the values tried for each numeric option: inside, at the ends of and
\* outside the documented range
OptionValues ==
    [threshold |-> {0 - 1, 0, 5, 10, 11},
     triggerLevel |-> {0 - 1, 0, 1, 4},
     refractorySteps |-> {0 - 1, 0, 20},
     stepFrames |-> {0, 1, 16, 17}]

\* one pass of the argument loop on a numeric option: field = atoi/atof(value)
ParseNumericArg(option, value) ==
    /\ hostPc = "parseArgs"
    /\ Len(hprod.pushed) < MaxArgs
    /\ hch' = [hch EXCEPT ![option] = value]
    /\ hprod' = [hprod EXCEPT !.pushed = Append(@, option)]
    /\ UNCHANGED <<hcons, dvars, cfgvars, srcvars, pvars>>

\* one pass of the argument loop on --model: wakeWordModelPaths.push_back
ParseModelArg ==
    /\ hostPc = "parseArgs"
    /\ Len(hprod.pushed) < MaxArgs
    /\ hch.models < numWakeWords
    /\ hch' = [hch EXCEPT !.models = @ + 1]
    /\ hprod' = [hprod EXCEPT !.pushed = Append(@, "model")]
    /\ UNCHANGED <<hcons, dvars, cfgvars, srcvars, pvars>>

\* one pass of the argument loop on --debug
ParseDebugArg ==
    /\ hostPc = "parseArgs"
    /\ Len(hprod.pushed) < MaxArgs
    /\ hch' = [hch EXCEPT !.debug = TRUE]
    /\ hprod' = [hprod EXCEPT !.pushed = Append(@, "debug")]
    /\ UNCHANGED <<hcons, dvars, cfgvars, srcvars, pvars>>

\* Config::validate
Validate(config) ==
    /\ config.models > 0
    /\ config.filesExist
    /\ ~(config.threshold < 0 \/ config.threshold > 10)

\* the end of the argument loop: frameSize, the per-model configurations,
\* return validate(); then main returns 1 or constructs the pipeline
ParseArgsReturn ==
    /\ hostPc = "parseArgs"
    /\ IF Validate(hch)
       THEN /\ hostPc' = "start"
            /\ stepFrames' = hch.stepFrames
            /\ wwConfig' = [d \in Dets |->
                               [threshold |-> hch.threshold,
                                triggerLevel |-> hch.triggerLevel,
                                refractorySteps |-> hch.refractorySteps,
                                debug |-> hch.debug]]
            /\ melProc' = [melProc EXCEPT !.frameSamples =
                              VRun(0 - hch.stepFrames * CHUNK_SAMPLES,
                                   hch.stepFrames * CHUNK_SAMPLES)]
       ELSE /\ hostPc' = "exit1"
            /\ UNCHANGED <<stepFrames, wwConfig, melProc>>
    /\ UNCHANGED <<hvars, activationCount, predLog, stdoutLog, stderrLines,
                   outputMutex, numWakeWords, srcvars, running, readyvars,
                   audioBuffer, melBuffer, featureBuffers, hostIdx, melPc,
                   embvars, detvars, crashed, melCalls, embLog, detGot>>

\* main() is about to call Config::parseArgs
BeforeParseArgs ==
    [host |-> "parseArgs", mel |-> "unstarted", emb |-> "unstarted",
     det |-> "unstarted"]

InitConfig ==
    /\ \E filesExist \in BOOLEAN : hch = ConfigDefaults(filesExist)
    /\ hprod = [pc |-> "done", pushed |-> <<>>]
    /\ hcons = << >>
    /\ DetectorsInit(<< EagerWakeWordConfig >>)
    /\ PipelineInit(1, MelModelStepFrames, 0, BeforeParseArgs)

NextConfig ==
    \/ \E option \in DOMAIN OptionValues :
           \E value \in OptionValues[option] : ParseNumericArg(option, value)
    \/ ParseModelArg
    \/ ParseDebugArg
    \/ ParseArgsReturn
    \/ Start

SpecConfig == InitConfig /\ [][NextConfig]_vars

\* every numeric option of the configuration lies in its documented range
ConfigInRange ==
    /\ \A d \in Dets : /\ wwConfig[d].threshold \in 0 .. 10
                       /\ wwConfig[d].triggerLevel >= 1
                       /\ wwConfig[d].refractorySteps >= 0
    /\ stepFrames \in 1 .. 16

\* main() has gone past the parsing of the configuration
PastParseArgs == hostPc \notin {"parseArgs", "exit1"}

\* C21: a command line with an out-of-range numeric option (threshold
\* outside [0,1], trigger-level < 1, refractory < 0, step-frames outside
\* 1..16) ends in exit 1: main() goes past parseArgs, and the pipeline is
\* started, only with every numeric option in its range.
C21_OutOfRangeRejected ==
    /\ PastParseArgs => ConfigInRange
    /\ hostPc = "exit1" => ~running

\* the threshold is the one numeric option that validate() tests
ThresholdOutOfRangeRejected ==
    PastParseArgs => \A d \in Dets : wwConfig[d].threshold \in 0 .. 10

\* --model m --trigger-level 0 --step-frames 17: the pipeline is started
C21_StartedOutOfRange ==
    /\ hprod.pushed = <<"model", "triggerLevel", "stepFrames">>
    /\ running
    /\ wwConfig[1].triggerLevel = 0
    /\ stepFrames = 17

(***************************************************************************)
(* A RingBuffer<T> driven directly.  hch is the buffer; the k-th value     *)
(* pushed is k - 1, so hprod.pushed (the sizes of the pushes that went     *)
(* through) tells what was pushed.  hcons["caller"] records the latest     *)
(* call: op, its arguments, whether it reported success (ok: it returned   *)
(* true, or returned without throwing), the output vector, the buffer      *)
(* before the call, and the number of values popped, skipped or cleared   *)
(* so far.                                                                 *)
(***************************************************************************)
\* largest capacity tried, calls made on one buffer at most
MaxRingCapacity == 3
MaxRingOps == 5

\* count arguments tried: up to one more than any capacity
RingCounts == 0 .. MaxRingCapacity + 1

\* offset arguments of peek tried
RingOffsets == {0, 1, 2, SIZE_MAX}

\* the caller's output array, count slots that hold no stream value
RingOutput(count) == VRun(0 - count, count)

RingCanCall ==
    /\ hprod.pc = "ring"
    /\ hcons["caller"].calls < MaxRingOps

RingCalled(op, count, offset, ok, output, consumed) ==
    hcons' = [hcons EXCEPT !["caller"] =
                 [op |-> op, count |-> count, offset |-> offset, ok |-> ok,
                  output |-> output, before |-> hch,
                  consumed |-> @.consumed + consumed, calls |-> @.calls + 1]]

\* push(data, count) with the next count values of the stream
RingPush(count) ==
    /\ RingCanCall
    /\ LET data == VRun(SumSeq(hprod.pushed), count)
       IN  IF RB_PushOverflows(hch, data)
           THEN /\ RingCalled("push", count, 0, FALSE, <<>>, 0)
                /\ UNCHANGED <<hch, hprod>>
           ELSE /\ RingCalled("push", count, 0, TRUE, <<>>, 0)
                /\ hch' = RB_Push(hch, data)
                /\ hprod' = [hprod EXCEPT !.pushed = Append(@, count)]
    /\ UNCHANGED <<dvars, cfgvars, srcvars, pvars>>

\* pop(output, count)
RingPop(count) ==
    /\ RingCanCall
    /\ LET popped == RB_Pop(hch, RingOutput(count), count)
       IN  /\ RingCalled("pop", count, 0, popped.ok, popped.output,
                         IF popped.ok THEN count ELSE 0)
           /\ hch' = popped.rb
    /\ UNCHANGED <<hprod, dvars, cfgvars, srcvars, pvars>>

\* peek(output, count, offset)
RingPeek(count, offset) ==
    /\ RingCanCall
    /\ LET peeked == RB_Peek(hch, RingOutput(count), count, offset)
       IN  RingCalled("peek", count, offset, peeked.ok, peeked.output, 0)
    /\ UNCHANGED <<hch, hprod, dvars, cfgvars, srcvars, pvars>>

\* skip(count)
RingSkip(count) ==
    /\ RingCanCall
    /\ IF RB_SkipUnderflows(hch, count)
       THEN /\ RingCalled("skip", count, 0, FALSE, <<>>, 0)
            /\ UNCHANGED hch
       ELSE /\ RingCalled("skip", count, 0, TRUE, <<>>, count)
            /\ hch' = RB_Skip(hch, count)
    /\ UNCHANGED <<hprod, dvars, cfgvars, srcvars, pvars>>

\* clear(): everything held is dropped
RingClear ==
    /\ RingCanCall
    /\ RingCalled("clear", 0, 0, TRUE, <<>>, hch.size)
    /\ hch' = RB_Clear(hch)
    /\ UNCHANGED <<hprod, dvars, cfgvars, srcvars, pvars>>

InitRing ==
    /\ \E capacity \in 1 .. MaxRingCapacity : hch = RB_New(capacity)
    /\ hprod = [pc |-> "ring", pushed |-> <<>>]
    /\ hcons = [c \in {"caller"} |->
                   [op |-> "new", count |-> 0, offset |-> 0, ok |-> TRUE,
                    output |-> <<>>, before |-> hch, consumed |-> 0,
                    calls |-> 0]]
    /\ DetectorsInit(<< >>)
    /\ PipelineInit(0, MelModelStepFrames, 0, NotStarted)

NextRing ==
    \/ \E count \in RingCounts : RingPush(count)
    \/ \E count \in RingCounts : RingPop(count)
    \/ \E count \in RingCounts, offset \in RingOffsets : RingPeek(count, offset)
    \/ \E count \in RingCounts : RingSkip(count)
    \/ RingClear

SpecRing == InitRing /\ [][NextRing]_vars

\* the latest call on the buffer
RingCall == hcons["caller"]

\* the values pushed and not yet popped or skipped, in push order
RingPending == VRun(RingCall.consumed, SumSeq(hprod.pushed) - RingCall.consumed)

\* the size precondition of the latest call held when it was made
RingCallInRange ==
    CASE RingCall.op = "push" -> RingCall.count <= RB_Available(RingCall.before)
      [] RingCall.op = "peek" ->
             RingCall.offset + RingCall.count <= RingCall.before.size
      [] RingCall.op \in {"pop", "skip"} -> RingCall.count <= RingCall.before.size
      [] OTHER -> TRUE

\* C22: on a buffer of any capacity >= 1 and after any sequence of push,
\* pop, peek and skip calls, the buffer holds exactly the pushed values not
\* yet popped or skipped, in push order; a pop of n returns the first n of
\* them; a peek(n, offset) within the held values returns the n of them from
\* position offset on, which a later pop returns at those positions, and
\* leaves the buffer as it was.
C22_FifoRoundTrip ==
    /\ hch.size = VLen(RingPending)
    /\ RB_Load(hch, hch.read_pos, hch.size) = RingPending
    /\ (RingCall.op = "pop" /\ RingCall.ok) =>
           RingCall.output = VRun(RingCall.consumed - RingCall.count,
                                  RingCall.count)
    /\ (RingCall.op = "peek" /\ RingCallInRange) =>
           /\ RingCall.ok
           /\ RingCall.output = VSub(RingPending, RingCall.offset, RingCall.count)
           /\ hch = RingCall.before

\* capacity 3: push 2, pop 2, push 3 (wraps around the end of storage),
\* peek(2, 1), pop 3
C22_Witness ==
    /\ hch.capacity = 3
    /\ hprod.pushed = <<2, 3>>
    /\ RingCall.op = "pop"
    /\ RingCall.ok
    /\ RingCall.output = VRun(2, 3)
    /\ RingCall.before.read_pos = 2
    /\ RingCall.calls = MaxRingOps

\* C23: a call whose size precondition is violated (push of n > available(),
\* pop or skip of n > size(), peek with offset + n > size()) reports failure
\* and leaves contents, size and both cursors as they were.
C23_ViolationFailsUnchanged ==
    ~RingCallInRange => (~RingCall.ok /\ hch = RingCall.before)

\* the same for push, pop and skip, and for peek as far as the buffer goes
ViolationLeavesBufferUnchanged ==
    ~RingCallInRange =>
        /\ hch = RingCall.before
        /\ RingCall.op # "peek" => ~RingCall.ok

\* peek(output, 1, SIZE_MAX) on a buffer that holds one value: offset + count
\* wraps to 0 and peek returns true
C23_PeekOffsetWraps ==
    /\ hch.size = 1
    /\ RingCall.op = "peek"
    /\ RingCall.count = 1
    /\ RingCall.offset = SIZE_MAX
    /\ RingCall.ok

(***************************************************************************)
(* Backpressure on the detector channels                                   *)
(***************************************************************************)
\* C24 (as stated): the embedding stage's push into a detector channel that
\* is not being drained does not complete until the consumer catches up, so
\* a detector channel never holds more than the vector pushed last; and no
\* embedding vector is dropped.
C24_PushBlocksUntilDrained ==
    \A d \in Dets :
        /\ VLen(featureBuffers[d].buffer) <= EMBEDDING_FEATURES
        /\ VCat(detGot[d], featureBuffers[d].buffer) = Flatten(PushedTo(d))

\* C24 (amended): push never blocks.  Whatever a detector channel holds, the
\* embedding worker inside its fan-out loop can take its next step, it never
\* sleeps on a detector channel, and a channel whose detector has pulled
\* nothing holds every vector pushed to it: none is dropped.
C24_PushNeverBlocksNothingDropped ==
    /\ (embPc = "fan" /\ crashed = "") => ENABLED EmbFan
    /\ \A d \in Dets :
           /\ featureBuffers[d].waiting \subseteq {d}
           /\ detGot[d] = <<>> => featureBuffers[d].buffer = Flatten(PushedTo(d))

\* the embedding worker has pushed 16 vectors to each channel and exited
\* while detector 1 has not pulled once
C24_Witness ==
    /\ embPc = "done"
    /\ Len(embLog) = WAKEWORD_FEATURES
    /\ detGot[1] = <<>>
    /\ detPc[1] = "pull"
    /\ VLen(featureBuffers[1].buffer) = WAKEWORD_FEATURES * EMBEDDING_FEATURES

(***************************************************************************)
(* The program on an audio source that is at end of file from the start    *)
(***************************************************************************)
\* main() on a source that holds no audio or one frame of it.  One frame
\* gives the embedding worker 20 mel frames, fewer than a window, so neither
\* the fan-out loop nor a detector's prediction loop is entered.
InitShortInput ==
    /\ HarnessIdle
    /\ \E n \in 1 .. MaxDetectors :
           /\ DetectorsInit([d \in 1 .. n |-> EagerWakeWordConfig])
           /\ \E frames \in {0, 1} :
                  PipelineInit(n, MelModelStepFrames,
                               frames * MelModelStepFrames * CHUNK_SAMPLES,
                               BeforeStart)

EmbShortInput == EmbReady \/ EmbPull \/ EmbCheck \/ EmbSetExhausted
DetShortInput(d) == DetReady(d) \/ DetPull(d) \/ DetCheck(d)

NextShortInput ==
    \/ HostSteps
    \/ MelSteps
    \/ EmbShortInput
    \/ \E d \in Dets : DetShortInput(d)
    \/ SpuriousWakes

SpecShortInput == InitShortInput /\ [][NextShortInput]_vars

\* the scheduler lets every thread that can take a step take one; a
\* condition variable owes no spurious wake-up
FairSpecShortInput ==
    /\ SpecShortInput
    /\ WF_vars(HostSteps)
    /\ WF_vars(MelSteps)
    /\ WF_vars(EmbShortInput)
    /\ \A d \in 1 .. MaxDetectors : WF_vars(d \in Dets /\ DetShortInput(d))

\* the steps left out of NextShortInput are never enabled
ShortInputEntersNoWindowLoop ==
    /\ embPc # "fan"
    /\ \A d \in Dets : detPc[d] # "predict"

\* the first fread of main returned 0: nothing was read and nothing is left
ZeroLengthInput == stdinPos = 0 /\ stdinLeft = 0

\* nothing has been handed to the pipeline, no model has been invoked, and
\* nothing has been written
NothingProcessed ==
    /\ audioBuffer.buffer = <<>>
    /\ melProc.ring.size = 0
    /\ melCalls = <<>>
    /\ melBuffer.buffer = <<>>
    /\ embLog = <<>>
    /\ \A d \in Dets : /\ featureBuffers[d].buffer = <<>>
                       /\ detGot[d] = <<>>
                       /\ predLog[d] = <<>>
                       /\ stderrLines[d] = 0
    /\ stdoutLog = <<>>

\* C25: when the audio source is at EOF before any sample is read, start()
\* and waitUntilReady() return, processAudio is never called, no model is
\* invoked and no event is written; no exception ends the process; stop()
\* returns only with every worker exited, and under fair scheduling it does
\* return, after which main returns 0.
C25_ZeroLengthInput ==
    /\ [](ZeroLengthInput =>
              /\ NothingProcessed
              /\ crashed = ""
              /\ hostPc = "stopped" =>
                     /\ ~running
                     /\ melPc = "done"
                     /\ embPc = "done"
                     /\ \A d \in Dets : detPc[d] = "done")
    /\ ZeroLengthInput => <>(hostPc = "read" /\ readyCount = 2 + numWakeWords)
    /\ ZeroLengthInput => <>[](hostPc = "stopped")

\* stop() has returned on an empty source with two detectors, each of which
\* had gone to sleep on its channel
C25_Witness ==
    /\ ZeroLengthInput
    /\ numWakeWords = MaxDetectors
    /\ hostPc = "stopped"
    /\ readyCount = 2 + MaxDetectors
    /\ \A d \in Dets : featureBuffers[d].exhausted

(***************************************************************************)
(* What a stage keeps between two pulls                                    *)
(***************************************************************************)
\* C26: whenever a worker has left its inner loop and is about to pull (or
\* to run the exit test that follows an empty pull), what it has accumulated
\* is less than one window: fewer than FRAME_SAMPLES samples in the mel
\* worker's ring, fewer than 76 * 32 mel scalars in the embedding worker's
\* ring, fewer than 16 * 96 embedding scalars in a detector's todoFeatures.
C26_ResidualBelowWindow ==
    /\ melPc \in {"pull", "check"} =>
           melProc.ring.size < stepFrames * CHUNK_SAMPLES
    /\ embPc \in {"pull", "check"} =>
           embProc.ring.size < EMBEDDING_WINDOW_SIZE * NUM_MELS
    /\ \A d \in Dets :
           detPc[d] \in {"pull", "check"} =>
               VLen(detProc[d].todoFeatures)
                   < WAKEWORD_FEATURES * EMBEDDING_FEATURES

\* every worker is about to pull with a residue: half a chunk of audio after
\* 10 frames, 72 mel frames after 16 windows, 15 embeddings after a prediction
C26_Witness ==
    /\ melPc = "pull"
    /\ Len(melCalls) = MaxStdinFrames
    /\ melProc.ring.size = CHUNK_SAMPLES \div 2
    /\ embPc = "pull"
    /\ Len(embLog) = WAKEWORD_FEATURES
    /\ embProc.ring.size = 72 * NUM_MELS
    /\ detPc[1] = "pull"
    /\ Len(predLog[1]) = 1
    /\ VLen(detProc[1].todoFeatures) = 15 * EMBEDDING_FEATURES

(***************************************************************************)
(* The rings of the mel and embedding workers in the running program       *)
(***************************************************************************)
\* C27: in every reachable state of the program, whatever the interleaving
\* of the host's processAudio pushes with the mel worker's pulls, the batch
\* the mel worker pulls fits what is free in its ring of 16 * 1280 samples:
\* RingBuffer::push never throws in the mel worker.
C27_MelRingNeverOverflows ==
    /\ (melPc = "pull" /\ TSB_CanPull(audioBuffer)) =>
           ~RB_PushOverflows(melProc.ring, TSB_PullResult(audioBuffer))
    /\ ~(crashed = "overflow_error" /\ melProc.samples # <<>>)

\* the host has pushed five frames of the default 4 * 1280 samples, more
\* audio is to come, and the mel worker's first pull returns all five: 25600
\* samples for a ring of 20480
C27_FiveFramesInOnePull ==
    /\ stepFrames = MelModelStepFrames
    /\ hostPc = "read"
    /\ stdinLeft > 0
    /\ running
    /\ melProc.ring.size = 0
    /\ VLen(melProc.samples) = 5 * FrameSize
    /\ crashed = "overflow_error"

\* C28: in every reachable state of the program, whatever the interleaving
\* of the mel worker's pushes with the embedding worker's pulls, what the
\* embedding worker's ring holds plus the mel batch it pulls is at most the
\* ring's 2 * 76 * 32 scalars: RingBuffer::push never throws in the
\* embedding worker.
C28_EmbRingNeverOverflows ==
    /\ (embPc = "pull" /\ TSB_CanPull(melBuffer)) =>
           embProc.ring.size + VLen(TSB_PullResult(melBuffer))
               <= EmbRingWindows * EMBEDDING_WINDOW_SIZE * NUM_MELS
    /\ ~(crashed = "overflow_error" /\ embProc.mels # <<>>)

\* the mel worker has pushed the mel output of eight frames, 160 mel frames,
\* without ever meeting a full ring itself, and the embedding worker's first
\* pull returns them all: 5120 scalars for a ring of 4864
C28_EightMelBatchesInOnePull ==
    /\ stepFrames = MelModelStepFrames
    /\ Len(melCalls) = 8
    /\ melProc.samples = <<>>
    /\ embLog = <<>>
    /\ embProc.ring.size = 0
    /\ VLen(embProc.mels) = 8 * MelOutputCount
    /\ crashed = "overflow_error"

(***************************************************************************)
(* What holds when a call of Pipeline::stop returns                        *)
(***************************************************************************)
\* C29: whenever a call of Pipeline::stop() has returned - main's, the
\* destructor's or the signal handler's, also one made while another stop()
\* is in progress - every worker thread that start() created has exited and
\* been joined: the host is past stop() only with no worker left, and the
\* pipeline is never destroyed with a joinable thread (std::terminate).
C29_StopReturnsAfterJoin ==
    /\ hostPc \in {"stopped", "exit0"} =>
           /\ melPc \in {"unstarted", "done"}
           /\ embPc \in {"unstarted", "done"}
           /\ \A d \in Dets : detPc[d] \in {"unstarted", "done"}
    /\ crashed # "terminate"

\* main's stop() has joined the mel and embedding threads and waits in the
\* join of a detector that still runs; the signal arrives on the host
\* thread, the handler's stop() finds running_ false and returns at once,
\* and exit(0) destroys the pipeline with the detector thread joinable
C29_NestedStopReturnsAtOnce ==
    /\ hostPc = "joinDetectors"
    /\ ~running
    /\ melPc = "done"
    /\ embPc = "done"
    /\ detPc[1] \notin {"unstarted", "done"}
    /\ crashed = "terminate"

(***************************************************************************)
(* The audio scratch pool.  hch is the VectorPool under construction and   *)
(* in use: pool is ObjectPool::pool_ (the back of the vector is the end of *)
(* the sequence), each element the capacity() and size() of one            *)
(* std::vector<float> with the index at which createFunc_ made it;         *)
(* borrowed is the vector the BorrowedObject of processAudio or of the     *)
(* constructor holds, or <<>>; waiting is the set of threads asleep in     *)
(* cv_.wait.  hprod                                                        *)
(* tells where the caller is: the passes of the constructor's loop done    *)
(* (i), and the sample counts of the processAudio calls made.  reserve(n)  *)
(* is given the least capacity the standard allows.                        *)
(***************************************************************************)
\* Pipeline::Pipeline: VectorPool<AudioFloat>(4, config_.frameSize)
AudioPoolSize == 4

\* calls of processAudio made on one pool at most
MaxPoolCalls == 3

\* ObjectPool::ObjectPool: initialSize objects from createFunc_, which makes
\* an empty std::vector
ObjectPool_New(initialSize) ==
    [pool |-> [k \in 1 .. initialSize |-> [made |-> k, capacity |-> 0, size |-> 0]],
     borrowed |-> <<>>,
     waiting |-> {}]

\* std::vector::reserve
VectorReserve(v, n) == [v EXCEPT !.capacity = Max(@, n)]

\* ObjectPool::borrow with a non-empty pool: pool_.back(), pool_.pop_back()
ObjectPool_Borrow_KeepsBack(p) ==
    [p EXCEPT !.borrowed = << p.pool[Len(p.pool)] >>]

ObjectPool_Borrow(p) ==
    [p EXCEPT !.pool = SubSeq(p.pool, 1, Len(p.pool) - 1),
              !.borrowed = << p.pool[Len(p.pool)] >>]

\* VectorPool's resetFunc: v.clear(); v.reserve(vectorCapacity)
VectorPool_Reset(v, vectorCapacity) ==
    VectorReserve([v EXCEPT !.size = 0], vectorCapacity)

\* ~BorrowedObject -> ObjectPool::returnObject: resetFunc_(*obj);
\* pool_.push_back(obj); the state before cv_.notify_one()
ObjectPool_Return(p, vectorCapacity) ==
    [p EXCEPT !.pool = Append(@, VectorPool_Reset(p.borrowed[1], vectorCapacity)),
              !.borrowed = <<>>]

\* one pass of the loop of VectorPool::VectorPool: auto borrowed =
\* pool_.borrow(); borrowed->reserve(vectorCapacity); and the destructor of
\* `borrowed` at the end of the pass
VectorPoolCtorPass ==
    /\ hprod.pc = "VectorPool"
    /\ LET borrowed == ObjectPool_Borrow(hch)
           reserved == [borrowed EXCEPT
                           !.borrowed[1] = VectorReserve(@, FrameSize)]
       IN  hch' \in TSB_NotifyOne(ObjectPool_Return(reserved, FrameSize))
    /\ hprod' = [hprod EXCEPT
           !.i = @ + 1,
           !.pc = IF hprod.i + 1 = Len(hch.pool) THEN "processAudio" ELSE @]
    /\ UNCHANGED <<hcons, dvars, cfgvars, srcvars, pvars>>

\* Pipeline::processAudio up to the push: borrow, which sleeps while the
\* pool is empty, then convertToFloat's output.resize(count); hcons counts
\* the borrows whose vector had to allocate for it
PoolProcessAudio(count) ==
    /\ hprod.pc = "processAudio"
    /\ hch.borrowed = <<>>
    /\ "host" \notin hch.waiting
    /\ Len(hprod.pushed) < MaxPoolCalls
    /\ IF hch.pool = <<>>
       THEN /\ hch' = TSB_Sleep(hch, "host")
            /\ UNCHANGED <<hprod, hcons>>
       ELSE /\ LET borrowed == ObjectPool_Borrow(hch)
                   v == borrowed.borrowed[1]
               IN  /\ hch' = [borrowed EXCEPT
                                 !.borrowed[1] = [VectorReserve(v, count)
                                                      EXCEPT !.size = count]]
                   /\ hcons' = [hcons EXCEPT !["host"].allocations =
                                   IF v.capacity < count THEN @ + 1 ELSE @]
            /\ hprod' = [hprod EXCEPT !.pushed = Append(@, count)]
    /\ UNCHANGED <<dvars, cfgvars, srcvars, pvars>>

\* the end of Pipeline::processAudio: `borrowed` goes out of scope
PoolProcessAudioReturn ==
    /\ hprod.pc = "processAudio"
    /\ hch.borrowed # <<>>
    /\ hch' \in TSB_NotifyOne(ObjectPool_Return(hch, FrameSize))
    /\ UNCHANGED <<hprod, hcons, dvars, cfgvars, srcvars, pvars>>

InitPool ==
    /\ \E poolSize \in 1 .. AudioPoolSize : hch = ObjectPool_New(poolSize)
    /\ hprod = [pc |-> "VectorPool", i |-> 0, pushed |-> <<>>]
    /\ hcons = [c \in {"host"} |-> [allocations |-> 0]]
    /\ DetectorsInit(<< >>)
    /\ \E step \in StepFramesTried : PipelineInit(0, step, 0, NotStarted)

NextPool ==
    \/ VectorPoolCtorPass
    \/ \E count \in {CHUNK_SAMPLES \div 2, FrameSize} : PoolProcessAudio(count)
    \/ PoolProcessAudioReturn

SpecPool == InitPool /\ [][NextPool]_vars

\* the vectors of the pool, the borrowed one included
PoolVectors == {hch.pool[k] : k \in 1 .. Len(hch.pool)}
                   \cup {hch.borrowed[k] : k \in 1 .. Len(hch.borrowed)}

\* C30: once VectorPool(4, FRAME_SAMPLES) is constructed, every one of its
\* vectors has capacity at least FRAME_SAMPLES, and no borrow of
\* processAudio hands out a vector that has to allocate for a frame.
C30_AllVectorsPreallocated ==
    hprod.pc = "processAudio" =>
        /\ \A v \in PoolVectors : v.capacity >= FrameSize
        /\ hcons["host"].allocations = 0

\* what does hold: the vector at the back of the pool, the one every borrow
\* of processAudio hands out, has the capacity, and none ever allocates
BackVectorPreallocated ==
    hprod.pc = "processAudio" =>
        /\ hch.borrowed = <<>> => hch.pool[Len(hch.pool)].capacity >= FrameSize
        /\ \A k \in 1 .. Len(hch.borrowed) : hch.borrowed[k].capacity >= FrameSize
        /\ hcons["host"].allocations = 0

\* the pool of 4 after its constructor: the four passes borrowed, reserved
\* and returned the same vector, the one made last; the other three have
\* capacity 0
C30_OnlyLastVectorReserved ==
    /\ hprod.pc = "processAudio"
    /\ hprod.i = AudioPoolSize
    /\ hprod.pushed = <<>>
    /\ Len(hch.pool) = AudioPoolSize
    /\ hch.pool[AudioPoolSize] =
           [made |-> AudioPoolSize, capacity |-> FrameSize, size |-> 0]
    /\ \A k \in 1 .. AudioPoolSize - 1 : hch.pool[k].capacity = 0

(***************************************************************************)
(* The pool shared by several borrowers.  Beside the host, which borrows   *)
(* inside processAudio, each thread of Borrowers owns two BorrowedObject   *)
(* variables, hcons[t].held[1] and [2], each <<>> (no object: obj_ is      *)
(* null) or holding one vector; hcons[t].last tells how its latest borrow  *)
(* or tryBorrow ended.  The pool's condition variable is modelled as the   *)
(* channel's is: a thread that finds the pool empty joins `waiting`.       *)
(***************************************************************************)
\* the threads that borrow beside the host, at most
MaxBorrowers == 2

BorrowerNames == <<"b1", "b2", "b3", "b4">>

Slots == {1, 2}

\* thread t takes the object at the back of the pool into its variable s
PoolTake(t, s, how) ==
    LET taken == ObjectPool_Borrow(hch)
    IN  /\ hch' = [taken EXCEPT !.borrowed = hch.borrowed]
        /\ hcons' = [hcons EXCEPT ![t].held[s] = taken.borrowed,
                                  ![t].last = how]

\* the pool after returnObject of the object in `held`, before the notify
PoolGiveBack(held) ==
    [ObjectPool_Return([hch EXCEPT !.borrowed = held], FrameSize)
         EXCEPT !.borrowed = hch.borrowed]

\* BorrowedObject b = pool.borrow() on thread t
PoolBorrow(t, s) ==
    /\ hprod.pc = "processAudio"
    /\ t \notin hch.waiting
    /\ hcons[t].held[s] = <<>>
    /\ IF hch.pool = <<>>
       THEN /\ hch' = TSB_Sleep(hch, t)
            /\ hcons' = [hcons EXCEPT ![t].last = "asleep"]
       ELSE PoolTake(t, s, "borrowed")
    /\ UNCHANGED <<hprod, dvars, cfgvars, srcvars, pvars>>

\* auto b = pool.tryBorrow() on thread t: nullptr from an empty pool
PoolTryBorrow(t, s) ==
    /\ hprod.pc = "processAudio"
    /\ t \notin hch.waiting
    /\ hcons[t].held[s] = <<>>
    /\ IF hch.pool = <<>>
       THEN /\ hcons' = [hcons EXCEPT ![t].last = "nullptr"]
            /\ UNCHANGED hch
       ELSE PoolTake(t, s, "tryBorrowed")
    /\ UNCHANGED <<hprod, dvars, cfgvars, srcvars, pvars>>

\* ~BorrowedObject of a variable that holds an object
PoolDestroy(t, s) ==
    /\ t \notin hch.waiting
    /\ hcons[t].held[s] # <<>>
    /\ hch' \in TSB_NotifyOne(PoolGiveBack(hcons[t].held[s]))
    /\ hcons' = [hcons EXCEPT ![t].held[s] = <<>>]
    /\ UNCHANGED <<hprod, dvars, cfgvars, srcvars, pvars>>

\* held[to] = std::move(held[from]) (the move constructor when held[to] is
\* a new variable): the target first returns what it holds, then takes the
\* source's object, and the source is left with none
PoolMove(t, from, to) ==
    /\ t \notin hch.waiting
    /\ from # to
    /\ hcons[t].held[from] # <<>>
    /\ IF hcons[t].held[to] # <<>>
       THEN hch' \in TSB_NotifyOne(PoolGiveBack(hcons[t].held[to]))
       ELSE UNCHANGED hch
    /\ hcons' = [hcons EXCEPT ![t].held[to] = hcons[t].held[from],
                              ![t].held[from] = <<>>,
                              ![t].last = "moved"]
    /\ UNCHANGED <<hprod, dvars, cfgvars, srcvars, pvars>>

PoolSpuriousWake ==
    /\ hch.waiting # {}
    /\ \E t \in hch.waiting : hch' = [hch EXCEPT !.waiting = @ \ {t}]
    /\ UNCHANGED <<hprod, hcons, dvars, cfgvars, srcvars, pvars>>

\* the threads other than the host that use the pool
PoolBorrowers == DOMAIN hcons \ {"host"}

InitPoolShared ==
    /\ \E poolSize \in 1 .. AudioPoolSize :
           /\ hch = ObjectPool_New(poolSize)
           /\ hprod = [pc |-> "VectorPool", i |-> 0, pushed |-> <<>>,
                       initialSize |-> poolSize]
    /\ \E n \in 0 .. MaxBorrowers :
           hcons = [t \in {"host"} \cup {BorrowerNames[k] : k \in 1 .. n} |->
                       IF t = "host" THEN [allocations |-> 0]
                       ELSE [held |-> << <<>>, <<>> >>, last |-> ""]]
    /\ DetectorsInit(<< >>)
    /\ PipelineInit(0, MelModelStepFrames, 0, NotStarted)

NextPoolShared ==
    \/ VectorPoolCtorPass
    \/ PoolProcessAudio(FrameSize)
    \/ PoolProcessAudioReturn
    \/ \E t \in PoolBorrowers, s \in Slots : PoolBorrow(t, s)
    \/ \E t \in PoolBorrowers, s \in Slots : PoolTryBorrow(t, s)
    \/ \E t \in PoolBorrowers, s \in Slots : PoolDestroy(t, s)
    \/ \E t \in PoolBorrowers, from \in Slots, to \in Slots : PoolMove(t, from, to)
    \/ PoolSpuriousWake

SpecPoolShared == InitPoolShared /\ [][NextPoolShared]_vars

\* the objects thread t holds
HeldBy(t) ==
    IF t = "host" THEN hch.borrowed
    ELSE hcons[t].held[1] \o hcons[t].held[2]

RECURSIVE HeldByAll(_)
HeldByAll(threads) ==
    IF threads = {} THEN <<>>
    ELSE LET t == CHOOSE x \in threads : TRUE
         IN  HeldBy(t) \o HeldByAll(threads \ {t})

\* every object of the pool: those in pool_ and those held
PoolObjects == hch.pool \o HeldByAll(DOMAIN hcons)

\* a step in which a thread comes to hold one more object is a borrow that
\* found the pool non-empty, by a thread that was not asleep, and it took
\* the object at the back of the pool
BorrowTakesFromPool ==
    \A t \in DOMAIN hcons :
        Len(HeldBy(t)') > Len(HeldBy(t)) =>
            /\ hch.pool # <<>>
            /\ t \notin hch.waiting
            /\ Len(HeldBy(t)') = Len(HeldBy(t)) + 1
            /\ hch'.pool = SubSeq(hch.pool, 1, Len(hch.pool) - 1)
            /\ \E k \in 1 .. Len(HeldBy(t)') :
                   HeldBy(t)'[k].made = hch.pool[Len(hch.pool)].made

\* C31: under any interleaving of borrow, tryBorrow, destruction and move
\* of BorrowedObjects, the objects in the pool and the objects held are
\* together exactly the objects the pool was created with, each once (so
\* none is held twice); a thread asleep in borrow holds nothing new until
\* an object is in the pool again, a borrow completing only by taking the
\* back of a non-empty pool; and when only processAudio uses the pool,
\* available() is back to the initial size after each call.
C31_PoolConservation ==
    /\ [](/\ Len(PoolObjects) = hprod.initialSize
          /\ {PoolObjects[k].made : k \in 1 .. Len(PoolObjects)}
                 = 1 .. hprod.initialSize
          /\ (PoolBorrowers = {} /\ hch.borrowed = <<>>) =>
                 Len(hch.pool) = hprod.initialSize
          /\ hch.waiting # {} =>
                 \A t \in hch.waiting : t = "host" \/ hcons[t].last = "asleep")
    /\ [][BorrowTakesFromPool]_vars

\* the pool of 4 is empty: b1 holds two objects, the second moved from one
\* variable to the other and borrowed again, the host is inside
\* processAudio with one, b2 holds one and is asleep in borrow
C31_Witness ==
    /\ hprod.initialSize = AudioPoolSize
    /\ hch.pool = <<>>
    /\ hch.borrowed # <<>>
    /\ Len(HeldBy("b1")) = 2
    /\ Len(HeldBy("b2")) = 1
    /\ hcons["b2"].last = "asleep"
    /\ "b2" \in hch.waiting

(***************************************************************************)
(* The members of a RingBuffer after any calls                             *)
(***************************************************************************)
\* C32: after any sequence of push, pop, peek, skip and clear calls, failed
\* ones included, on a buffer of capacity C >= 1: 0 <= size <= C,
\* read_pos < C, write_pos < C, write_pos = (read_pos + size) mod C, and
\* available() = C - size.
C32_RingStructure ==
    /\ hch.capacity >= 1
    /\ VLen(hch.buffer) = hch.capacity
    /\ hch.size \in 0 .. hch.capacity
    /\ hch.read_pos \in 0 .. hch.capacity - 1
    /\ hch.write_pos \in 0 .. hch.capacity - 1
    /\ hch.write_pos = (hch.read_pos + hch.size) % hch.capacity
    /\ RB_Available(hch) = hch.capacity - hch.size
    /\ RB_Available(hch) \in 0 .. hch.capacity

\* capacity 3 and full again after the cursors went round: pushes of 2 and
\* 3 went through, a skip of 2 between them, then a push failed and a peek
\* past the end passed its test
C32_Witness ==
    /\ hch.capacity = MaxRingCapacity
    /\ hch.size = MaxRingCapacity
    /\ hch.read_pos = 2
    /\ hch.write_pos = 2
    /\ hprod.pushed = <<2, 3>>
    /\ RingCall.op = "peek"
    /\ RingCall.offset = SIZE_MAX
    /\ RingCall.calls = MaxRingOps

(***************************************************************************)
(* The two implementations of the mel stage, of the embedding stage and of *)
(* the detector stage side by side: the one that accumulates in a          *)
(* RingBuffer (pop, or peek and skip) and the one that accumulates in a    *)
(* std::vector (copy, erase).                                              *)
(* Both are given the same batches, the results of their pulls; hch holds  *)
(* the accumulator of each, the windows each has handed to its model, and  *)
(* whether the ring's push has thrown.  The capacity of the detector's     *)
(* ring is set by a constructor that is not part of the sources; it is     *)
(* tried at one and at two windows.                                        *)
(***************************************************************************)
\* batches given to a stage at most
MaxVariantBatches == 4

\* the batches tried: chunks of samples for the mel stage (AudioBatchChunks),
\* mel frames for the embedding stage, embeddings for the detector stage;
\* capacities of the detector's ring tried, in windows
VariantMelFrames == {0, 20, 40, 80}
VariantEmbeddings == {0, 1, 16, 17}
DetRingWindowsTried == {1, 2}

RECURSIVE MelRingLoop(_, _)
\* MelSpectrogramProcessor::run, ring: the inner loop from its test on;
\* [acc, windows] with the frames handed to computeMelSpectrogram appended
MelRingLoop(ring, windows) ==
    IF ring.size >= FrameSize
    THEN LET popped == RB_Pop(ring, VRun(0 - FrameSize, FrameSize), FrameSize)
         IN  MelRingLoop(popped.rb, Append(windows, popped.output))
    ELSE [acc |-> ring, windows |-> windows]

RECURSIVE MelVectorLoop(_, _)
\* MelSpectrogramProcessor::run, vector: the inner loop from its test on
MelVectorLoop(todoSamples, windows) ==
    IF VLen(todoSamples) >= FrameSize
    THEN MelVectorLoop(VDrop(todoSamples, FrameSize),
                       Append(windows, VTake(todoSamples, FrameSize)))
    ELSE [acc |-> todoSamples, windows |-> windows]

RECURSIVE EmbRingLoop(_, _)
\* SpeechEmbeddingProcessor::run, ring: the inner loop from its test on
EmbRingLoop(ring, windows) ==
    IF ring.size \div NUM_MELS >= EMBEDDING_WINDOW_SIZE
    THEN LET windowMels == RB_Peek(ring, VRun(0 - EMBEDDING_WINDOW_SIZE * NUM_MELS,
                                               EMBEDDING_WINDOW_SIZE * NUM_MELS),
                                   EMBEDDING_WINDOW_SIZE * NUM_MELS, 0).output
         IN  EmbRingLoop(RB_Skip(ring, EMBEDDING_STEP_SIZE * NUM_MELS),
                         Append(windows, windowMels))
    ELSE [acc |-> ring, windows |-> windows]

RECURSIVE EmbVectorLoop(_, _)
\* SpeechEmbeddingProcessor::run, vector: the inner loop from its test on
EmbVectorLoop(todoMels, windows) ==
    IF VLen(todoMels) \div NUM_MELS >= EMBEDDING_WINDOW_SIZE
    THEN LET windowMels == VTake(todoMels, EMBEDDING_WINDOW_SIZE * NUM_MELS)
         IN  EmbVectorLoop(VDrop(todoMels, EMBEDDING_STEP_SIZE * NUM_MELS),
                           Append(windows, windowMels))
    ELSE [acc |-> todoMels, windows |-> windows]

RECURSIVE DetRingLoop(_, _)
\* WakeWordDetector::run, ring: the inner loop from its test on
DetRingLoop(ring, windows) ==
    IF ring.size \div EMBEDDING_FEATURES >= WAKEWORD_FEATURES
    THEN LET windowFeatures ==
                 RB_Peek(ring, VRun(0 - WAKEWORD_FEATURES * EMBEDDING_FEATURES,
                                    WAKEWORD_FEATURES * EMBEDDING_FEATURES),
                         WAKEWORD_FEATURES * EMBEDDING_FEATURES, 0).output
         IN  DetRingLoop(RB_Skip(ring, EMBEDDING_FEATURES),
                         Append(windows, windowFeatures))
    ELSE [acc |-> ring, windows |-> windows]

RECURSIVE DetVectorLoop(_, _)
\* WakeWordDetector::run, vector: the inner loop from its test on
DetVectorLoop(todoFeatures, windows) ==
    IF VLen(todoFeatures) \div EMBEDDING_FEATURES >= WAKEWORD_FEATURES
    THEN LET windowFeatures == VTake(todoFeatures,
                                     WAKEWORD_FEATURES * EMBEDDING_FEATURES)
         IN  DetVectorLoop(DetSlide(todoFeatures),
                           Append(windows, windowFeatures))
    ELSE [acc |-> todoFeatures, windows |-> windows]

\* one pass of the outer loop of both implementations of hch.stage on the
\* batch their pull returned: the `count` scalars that follow those given
\* so far
VariantsPass(count) ==
    /\ hprod.pc = "variants"
    /\ ~hch.overflowed
    /\ Len(hprod.pushed) < MaxVariantBatches
    /\ LET batch  == VRun(SumSeq(hprod.pushed), count)
           todo   == VCat(hch.todo, batch)
           vector == CASE hch.stage = "mel" ->
                              MelVectorLoop(todo, hch.vectorWindows)
                       [] hch.stage = "emb" ->
                              EmbVectorLoop(todo, hch.vectorWindows)
                       [] OTHER -> DetVectorLoop(todo, hch.vectorWindows)
       IN  IF batch # <<>> /\ RB_PushOverflows(hch.ring, batch)
           THEN hch' = [hch EXCEPT !.overflowed = TRUE,
                                   !.todo = vector.acc,
                                   !.vectorWindows = vector.windows]
           ELSE LET pushed == IF batch # <<>> THEN RB_Push(hch.ring, batch)
                              ELSE hch.ring
                    ring   == CASE hch.stage = "mel" ->
                                       MelRingLoop(pushed, hch.ringWindows)
                                [] hch.stage = "emb" ->
                                       EmbRingLoop(pushed, hch.ringWindows)
                                [] OTHER -> DetRingLoop(pushed, hch.ringWindows)
                IN  hch' = [hch EXCEPT !.ring = ring.acc,
                                       !.ringWindows = ring.windows,
                                       !.todo = vector.acc,
                                       !.vectorWindows = vector.windows]
    /\ hprod' = [hprod EXCEPT !.pushed = Append(@, count)]
    /\ UNCHANGED <<hcons, dvars, cfgvars, srcvars, pvars>>

VariantsNew(stage, capacity) ==
    [stage |-> stage, ring |-> RB_New(capacity), todo |-> <<>>,
     ringWindows |-> <<>>, vectorWindows |-> <<>>, overflowed |-> FALSE]

InitVariants ==
    /\ \/ hch = VariantsNew("mel", MelRingChunks * CHUNK_SAMPLES)
       \/ hch = VariantsNew("emb", EmbRingWindows * EMBEDDING_WINDOW_SIZE * NUM_MELS)
       \/ \E w \in DetRingWindowsTried :
              hch = VariantsNew("det", w * WAKEWORD_FEATURES * EMBEDDING_FEATURES)
    /\ hprod = [pc |-> "variants", pushed |-> <<>>]
    /\ hcons = << >>
    /\ DetectorsInit(<< >>)
    /\ PipelineInit(0, MelModelStepFrames, 0, NotStarted)

NextVariants ==
    \E count \in CASE hch.stage = "mel" ->
                        {chunks * CHUNK_SAMPLES : chunks \in AudioBatchChunks}
                   [] hch.stage = "emb" ->
                        {frames * NUM_MELS : frames \in VariantMelFrames}
                   [] OTHER ->
                        {n * EMBEDDING_FEATURES : n \in VariantEmbeddings} :
        VariantsPass(count)

SpecVariants == InitVariants /\ [][NextVariants]_vars

\* C33: on every sequence of input batches on which no push into the ring
\* overflows, the ring implementation and the vector implementation of the
\* mel stage, of the embedding stage and of the detector stage have handed
\* the same frames or windows
\* to the model in the same order, so they push the same outputs
\* downstream, and they hold the same residue.
C33_RingRefinesVector ==
    ~hch.overflowed =>
        /\ hch.ringWindows = hch.vectorWindows
        /\ RB_Load(hch.ring, hch.ring.read_pos, hch.ring.size) = hch.todo
        /\ hch.stage = "mel" =>
               [i \in 1 .. Len(hch.ringWindows) |->
                    ComputeMelSpectrogram(hch.ringWindows[i])]
                   = [i \in 1 .. Len(hch.vectorWindows) |->
                          ComputeMelSpectrogram(hch.vectorWindows[i])]
        /\ hch.stage = "emb" =>
               [i \in 1 .. Len(hch.ringWindows) |->
                    ExtractEmbeddings(hch.ringWindows[i])]
                   = [i \in 1 .. Len(hch.vectorWindows) |->
                          ExtractEmbeddings(hch.vectorWindows[i])]

\* the embedding stage after batches of 80, 40, 40 and 40 mel frames: the
\* third push wrapped around the end of the ring, 16 windows were peeked
C33_Witness ==
    /\ hch.stage = "emb"
    /\ ~hch.overflowed
    /\ hprod.pushed = <<80 * NUM_MELS, 40 * NUM_MELS, 40 * NUM_MELS, 40 * NUM_MELS>>
    /\ Len(hch.ringWindows) = WAKEWORD_FEATURES
    /\ hch.ring.write_pos < hch.ring.read_pos

(***************************************************************************)
(* LockFreeQueue, BulkLockFreeQueue and LockFreeBuffer                     *)
(*                                                                         *)
(* A LockFreeQueue is its linked list on the heap: nodes[n] is the Node    *)
(* allocated n-th and items[d] the T allocated d-th, 0 is nullptr, and     *)
(* `deleted` counts the delete expressions applied to the object.  A       *)
(* pointer keeps its value after the object it points to is deleted, as    *)
(* in the code.                                                            *)
(***************************************************************************)
BULK_SIZE == 128
\* the argument LockFreeBuffer::pull gives to try_pop_bulk
PullMaxItems == 1024

LFQ_New ==
    [nodes |-> << [data |-> 0, next |-> 0, deleted |-> 0] >>,
     items |-> << >>, head |-> 1, tail |-> 1]

LFQ_Push(q, item) ==
    LET newNode  == Len(q.nodes) + 1
        data     == Len(q.items) + 1
        prevTail == q.tail
    IN  [nodes |-> Append([q.nodes EXCEPT ![prevTail].next = newNode],
                          [data |-> data, next |-> 0, deleted |-> 0]),
         items |-> Append(q.items, [value |-> item, deleted |-> 0]),
         head  |-> q.head,
         tail  |-> newNode]

\* [ok, result, q]: what try_pop returns, what it leaves in `result` (the
\* caller's `was` when it returns false) and the queue afterwards
LFQ_TryPop(q, was) ==
    LET head == q.head
        next == q.nodes[head].next
    IN  IF next = 0
        THEN [ok |-> FALSE, result |-> was, q |-> q]
        ELSE LET data == q.nodes[next].data
             IN  IF data = 0
                 THEN [ok |-> FALSE, result |-> was, q |-> q]
                 ELSE [ok |-> TRUE,
                       result |-> q.items[data].value,
                       q |-> [q EXCEPT !.head = next,
                                       !.items[data].deleted = @ + 1,
                                       !.nodes[head].deleted = @ + 1]]

LFQ_Empty(q) == q.nodes[q.head].next = 0

RECURSIVE LFQ_Destroy(_)
\* ~LockFreeQueue: the loop from its test on; head 0 when it has ended
LFQ_Destroy(q) ==
    IF q.head = 0 THEN q
    ELSE LET oldHead == q.head
             data    == q.nodes[oldHead].data
             freed   == IF data = 0 THEN q.items
                        ELSE [q.items EXCEPT ![data].deleted = @ + 1]
         IN  LFQ_Destroy([q EXCEPT !.head = q.nodes[oldHead].next,
                                   !.items = freed,
                                   !.nodes[oldHead].deleted = @ + 1])

\* BulkLockFreeQueue: producer is ProducerData::buffer, consumer is the
\* part of ConsumerData::buffer from read_pos on
BLQ_New == [producer |-> << >>, consumer |-> << >>, queue |-> LFQ_New]

BLQ_Flush(q) ==
    IF q.producer # << >>
    THEN [q EXCEPT !.queue = LFQ_Push(@, q.producer), !.producer = << >>]
    ELSE q

BLQ_PushItem(q, item) ==
    LET buffered == [q EXCEPT !.producer = VCat(@, VRun(item, 1))]
    IN  IF VLen(buffered.producer) >= BULK_SIZE THEN BLQ_Flush(buffered)
        ELSE buffered

BLQ_PushVector(q, items) ==
    IF VLen(items) >= BULK_SIZE
    THEN [q EXCEPT !.queue = LFQ_Push(@, items)]
    ELSE LET buffered == [q EXCEPT !.producer = VCat(@, items)]
         IN  IF VLen(buffered.producer) >= BULK_SIZE THEN BLQ_Flush(buffered)
             ELSE buffered

\* [ok, result, q]
BLQ_TryPop(q) ==
    IF q.consumer # << >>
    THEN [ok |-> TRUE, result |-> VFirst(q.consumer),
          q |-> [q EXCEPT !.consumer = VDrop(@, 1)]]
    ELSE LET popped == LFQ_TryPop(q.queue, << >>)
         IN  IF popped.ok /\ popped.result # << >>
             THEN [ok |-> TRUE, result |-> VFirst(popped.result),
                   q |-> [q EXCEPT !.queue = popped.q,
                                   !.consumer = VDrop(popped.result, 1)]]
             ELSE [ok |-> FALSE, result |-> 0,
                   q |-> [q EXCEPT !.queue = popped.q,
                                   !.consumer = popped.result]]

\* the element of a set of one element; the loops below pass their state
\* from one iteration to the next through it, evaluated once
Only(s) == CHOOSE x \in s : TRUE

RECURSIVE BLQ_Refill(_, _, _)
\* try_pop_bulk: its second loop from the test on; [results, q]
BLQ_Refill(q, results, max_items) ==
    IF VLen(results) >= max_items THEN [results |-> results, q |-> q]
    ELSE LET popped == LFQ_TryPop(q.queue, << >>)
         IN  IF ~popped.ok
             THEN [results |-> results, q |-> [q EXCEPT !.consumer = << >>]]
             ELSE LET to_take == Min(VLen(popped.result),
                                     max_items - VLen(results))
                  IN  Only({BLQ_Refill(refilled, taken, max_items) :
                                refilled \in {[q EXCEPT !.queue = popped.q,
                                                        !.consumer = VDrop(popped.result, to_take)]},
                                taken \in {VCat(results, VTake(popped.result, to_take))}})

BLQ_TryPopBulk(q, max_items) ==
    BLQ_Refill([q EXCEPT !.consumer = VDrop(@, max_items)],
               VTake(q.consumer, max_items), max_items)

BLQ_Empty(q) == q.consumer = << >> /\ LFQ_Empty(q.queue)

\* LockFreeBuffer; waiting is the set of threads blocked in cv_.wait
LFB_New == [queue |-> BLQ_New, exhausted |-> FALSE, waiting |-> {}]

LFB_Push(b, data) ==
    IF ~b.exhausted
    THEN [b EXCEPT !.queue = BLQ_Flush(BLQ_PushVector(@, data))]
    ELSE b

\* the predicate of the wait in pull
LFB_WaitOver(b) == ~BLQ_Empty(b.queue) \/ b.exhausted

\* pull called with nobody else running: [returns, result, b], returns
\* FALSE when the call blocks in cv_.wait
LFB_Pull(b) ==
    LET first  == BLQ_TryPopBulk(b.queue, PullMaxItems)
        tried  == [b EXCEPT !.queue = first.q]
    IN  IF first.results # << >>
        THEN [returns |-> TRUE, result |-> first.results, b |-> tried]
        ELSE IF tried.exhausted /\ BLQ_Empty(tried.queue)
        THEN [returns |-> TRUE, result |-> << >>, b |-> tried]
        ELSE IF LFB_WaitOver(tried)
        THEN LET second == BLQ_TryPopBulk(tried.queue, PullMaxItems)
             IN  [returns |-> TRUE, result |-> second.results,
                  b |-> [tried EXCEPT !.queue = second.q]]
        ELSE [returns |-> FALSE, result |-> << >>, b |-> tried]

LFB_IsExhausted(b) == b.exhausted /\ BLQ_Empty(b.queue)

LFB_SetExhausted(b, value) ==
    IF value THEN [b EXCEPT !.exhausted = value, !.queue = BLQ_Flush(@)]
    ELSE [b EXCEPT !.exhausted = value]

(***************************************************************************)
(* A ThreadSafeBuffer and a LockFreeBuffer given the same calls, one       *)
(* after the other: hch holds the two buffers, hcons what the consumer     *)
(* has obtained from each and what the latest call returned from each,     *)
(* hprod the calls made.  A pull is made when at least one of the two      *)
(* returns; of the other it is recorded that it blocks.                    *)
(***************************************************************************)
\* calls made on the two buffers at most
MaxBufferCalls == 4

\* sizes of the vectors pushed
BufferPushSizes == {0, 1, 200, 1100}

BuffersCalled(call, tsb, lfb, count, within) ==
    /\ hprod' = [hprod EXCEPT !.calls = Append(@, call),
                              !.pushed = @ + count,
                              !.within = @ /\ within]
    /\ hcons' = [hcons EXCEPT
                   !.tsbGot = IF call = "pull" /\ tsb.returns
                              THEN VCat(@, tsb.result) ELSE @,
                   !.lfbGot = IF call = "pull" /\ lfb.returns
                              THEN VCat(@, lfb.result) ELSE @,
                   !.tsb = tsb, !.lfb = lfb]

BuffersPush(count) ==
    /\ hprod.pc = "buffers"
    /\ Len(hprod.calls) < MaxBufferCalls
    /\ LET data == VRun(hprod.pushed, count)
       IN  hch' = [tsb |-> TSB_Push(hch.tsb, data),
                   lfb |-> LFB_Push(hch.lfb, data)]
    /\ BuffersCalled("push", [returns |-> TRUE, result |-> << >>],
                     [returns |-> TRUE, result |-> << >>], count,
                     /\ count > 0
                     /\ ~hch.tsb.exhausted
                     /\ VLen(hch.tsb.buffer) + count <= PullMaxItems)
    /\ UNCHANGED <<dvars, cfgvars, srcvars, pvars>>

BuffersPull ==
    /\ hprod.pc = "buffers"
    /\ Len(hprod.calls) < MaxBufferCalls
    /\ LET pulled == LFB_Pull(hch.lfb)
       IN  /\ TSB_CanPull(hch.tsb) \/ pulled.returns
           /\ hch' = [tsb |-> IF TSB_CanPull(hch.tsb) THEN TSB_PullState(hch.tsb)
                              ELSE hch.tsb,
                      lfb |-> pulled.b]
           /\ BuffersCalled("pull",
                  [returns |-> TSB_CanPull(hch.tsb),
                   result  |-> IF TSB_CanPull(hch.tsb)
                               THEN TSB_PullResult(hch.tsb) ELSE << >>],
                  [returns |-> pulled.returns, result |-> pulled.result],
                  0, TRUE)
    /\ UNCHANGED <<dvars, cfgvars, srcvars, pvars>>

BuffersSetExhausted ==
    /\ hprod.pc = "buffers"
    /\ Len(hprod.calls) < MaxBufferCalls
    /\ hch' = [tsb |-> TSB_SetExhausted(hch.tsb, TRUE),
               lfb |-> LFB_SetExhausted(hch.lfb, TRUE)]
    /\ BuffersCalled("setExhausted", [returns |-> TRUE, result |-> << >>],
                     [returns |-> TRUE, result |-> << >>], 0, TRUE)
    /\ UNCHANGED <<dvars, cfgvars, srcvars, pvars>>

BuffersIsExhausted ==
    /\ hprod.pc = "buffers"
    /\ Len(hprod.calls) < MaxBufferCalls
    /\ hch' = hch
    /\ BuffersCalled("isExhausted",
                     [returns |-> TRUE, result |-> TSB_IsExhausted(hch.tsb)],
                     [returns |-> TRUE, result |-> LFB_IsExhausted(hch.lfb)],
                     0, TRUE)
    /\ UNCHANGED <<dvars, cfgvars, srcvars, pvars>>

InitBuffers ==
    /\ hch = [tsb |-> TSB_New, lfb |-> LFB_New]
    /\ hprod = [pc |-> "buffers", calls |-> << >>, pushed |-> 0, within |-> TRUE]
    /\ hcons = [tsbGot |-> << >>, lfbGot |-> << >>,
                tsb |-> [returns |-> TRUE, result |-> << >>],
                lfb |-> [returns |-> TRUE, result |-> << >>]]
    /\ DetectorsInit(<< >>)
    /\ PipelineInit(0, MelModelStepFrames, 0, NotStarted)

NextBuffers ==
    \/ \E count \in BufferPushSizes : BuffersPush(count)
    \/ BuffersPull
    \/ BuffersSetExhausted
    \/ BuffersIsExhausted

SpecBuffers == InitBuffers /\ [][NextBuffers]_vars

\* the latest call behaved the same on both buffers: both pulls returned
\* or both block, both returned an empty vector or neither did, both
\* isExhausted returned the same
BuffersAgree ==
    /\ hcons.tsbGot = hcons.lfbGot
    /\ hcons.tsb.returns = hcons.lfb.returns
    /\ hprod.calls # << >> /\ hprod.calls[Len(hprod.calls)] = "pull" =>
           (hcons.tsb.result = << >>) = (hcons.lfb.result = << >>)
    /\ hprod.calls # << >> /\ hprod.calls[Len(hprod.calls)] = "isExhausted" =>
           hcons.tsb.result = hcons.lfb.result

\* C34: after every sequence of push, pull, setExhausted(true) and
\* isExhausted calls made on a ThreadSafeBuffer and on a LockFreeBuffer,
\* the consumer has obtained the same element stream from both, and the
\* pulls that returned empty and the isExhausted calls that returned true
\* are the same on both.
C34_SameChannelBehaviour == BuffersAgree

\* what does hold: the two agree as long as no push is empty, none follows
\* setExhausted(true) and no more than PullMaxItems elements are pending
BuffersAgreeWithinLimits == hprod.within => BuffersAgree

\* setExhausted(true), push of one element, pull: the ThreadSafeBuffer
\* hands the element over, the LockFreeBuffer has dropped it
C34_PushAfterExhaustedDropped ==
    /\ hprod.calls = <<"setExhausted", "push", "pull">>
    /\ hcons.tsbGot = VRun(0, 1)
    /\ hcons.lfbGot = << >>
    /\ hcons.tsb.returns /\ hcons.lfb.returns

(***************************************************************************)
(* One pull on an empty LockFreeBuffer that is not exhausted, with a       *)
(* producer thread making calls at the same time.  hch is the buffer,      *)
(* hcons the consumer's position in pull, hprod the producer's position    *)
(* in its call.  The producer never holds cv_mutex_, so its steps fall     *)
(* anywhere between the consumer's: in particular between the consumer's   *)
(* evaluation of the predicate of cv_.wait and its going to sleep.         *)
(***************************************************************************)
\* calls the producer makes at most
MaxWakeCalls == 2

\* sizes of the vectors the producer pushes
WakePushSizes == {1, 200}

\* try_pop_bulk at the start of pull
WakePullTry ==
    /\ hcons.pc = "try"
    /\ \E first \in {BLQ_TryPopBulk(hch.queue, PullMaxItems)} :
           /\ hch' = [hch EXCEPT !.queue = first.q]
           /\ hcons' = IF first.results # << >>
                       THEN [pc |-> "returned", result |-> first.results]
                       ELSE [hcons EXCEPT !.pc = "checkExhausted"]
    /\ UNCHANGED <<hprod, dvars, cfgvars, srcvars, pvars>>

WakePullCheckExhausted ==
    /\ hcons.pc = "checkExhausted"
    /\ hcons' = IF hch.exhausted /\ BLQ_Empty(hch.queue)
                THEN [pc |-> "returned", result |-> << >>]
                ELSE [hcons EXCEPT !.pc = "predicate"]
    /\ UNCHANGED <<hch, hprod, dvars, cfgvars, srcvars, pvars>>

\* cv_.wait(lock, pred) evaluates pred with cv_mutex_ held
WakePullPredicate ==
    /\ hcons.pc = "predicate"
    /\ hcons' = [hcons EXCEPT !.pc = IF LFB_WaitOver(hch) THEN "pop" ELSE "block"]
    /\ UNCHANGED <<hch, hprod, dvars, cfgvars, srcvars, pvars>>

\* cv_.wait(lock): cv_mutex_ released and the thread put to sleep
WakePullBlock ==
    /\ hcons.pc = "block"
    /\ hch' = [hch EXCEPT !.waiting = @ \cup {"cons"}]
    /\ hcons' = [hcons EXCEPT !.pc = "waiting"]
    /\ UNCHANGED <<hprod, dvars, cfgvars, srcvars, pvars>>

\* try_pop_bulk after the wait
WakePullPop ==
    /\ hcons.pc = "pop"
    /\ \E second \in {BLQ_TryPopBulk(hch.queue, PullMaxItems)} :
           /\ hch' = [hch EXCEPT !.queue = second.q]
           /\ hcons' = [pc |-> "returned", result |-> second.results]
    /\ UNCHANGED <<hprod, dvars, cfgvars, srcvars, pvars>>

WakeSpurious ==
    /\ hcons.pc = "waiting"
    /\ hch' = [hch EXCEPT !.waiting = {}]
    /\ hcons' = [hcons EXCEPT !.pc = "predicate"]
    /\ UNCHANGED <<hprod, dvars, cfgvars, srcvars, pvars>>

\* the producer's next call
WakeCall ==
    /\ hprod.pc = "idle"
    /\ hprod.calls < hprod.n
    /\ \/ \E count \in WakePushSizes :
              hprod' = [hprod EXCEPT !.pc = "pushCheck",
                                     !.data = VRun(hprod.pushed, count)]
       \/ hprod' = [hprod EXCEPT !.pc = "store"]
    /\ UNCHANGED <<hch, hcons, dvars, cfgvars, srcvars, pvars>>

WakeReturned(pc) ==
    [hprod EXCEPT !.pc = pc, !.calls = @ + 1, !.data = << >>]

WakePushCheck ==
    /\ hprod.pc = "pushCheck"
    /\ hprod' = IF ~hch.exhausted THEN [hprod EXCEPT !.pc = "pushQueue"]
                ELSE WakeReturned("idle")
    /\ UNCHANGED <<hch, hcons, dvars, cfgvars, srcvars, pvars>>

WakePushQueue ==
    /\ hprod.pc = "pushQueue"
    /\ hch' = [hch EXCEPT !.queue = BLQ_Flush(BLQ_PushVector(@, hprod.data))]
    /\ hprod' = [hprod EXCEPT !.pc = "notify_one",
                              !.pushed = @ + VLen(hprod.data)]
    /\ UNCHANGED <<hcons, dvars, cfgvars, srcvars, pvars>>

WakeStore ==
    /\ hprod.pc = "store"
    /\ hch' = [hch EXCEPT !.exhausted = TRUE]
    /\ hprod' = [hprod EXCEPT !.pc = "flush"]
    /\ UNCHANGED <<hcons, dvars, cfgvars, srcvars, pvars>>

WakeFlush ==
    /\ hprod.pc = "flush"
    /\ hch' = [hch EXCEPT !.queue = BLQ_Flush(@)]
    /\ hprod' = [hprod EXCEPT !.pc = "notify_all"]
    /\ UNCHANGED <<hcons, dvars, cfgvars, srcvars, pvars>>

\* cv_.notify_one() and cv_.notify_all(), called without cv_mutex_: the
\* thread asleep in cv_.wait, if there is one, goes back to its predicate
WakeNotify ==
    /\ hprod.pc \in {"notify_one", "notify_all"}
    /\ hch' = [hch EXCEPT !.waiting = {}]
    /\ hcons' = IF "cons" \in hch.waiting THEN [hcons EXCEPT !.pc = "predicate"]
                ELSE hcons
    /\ hprod' = WakeReturned("idle")
    /\ UNCHANGED <<dvars, cfgvars, srcvars, pvars>>

WakeDone ==
    /\ hprod.pc = "idle"
    /\ hprod.calls = hprod.n
    /\ hprod' = [hprod EXCEPT !.pc = "done"]
    /\ UNCHANGED <<hch, hcons, dvars, cfgvars, srcvars, pvars>>

InitWake ==
    /\ hch = LFB_New
    /\ \E n \in 1 .. MaxWakeCalls :
           hprod = [pc |-> "idle", calls |-> 0, n |-> n, data |-> << >>,
                    pushed |-> 0]
    /\ hcons = [pc |-> "try", result |-> << >>]
    /\ DetectorsInit(<< >>)
    /\ PipelineInit(0, MelModelStepFrames, 0, NotStarted)

WakeConsumerSteps ==
    \/ WakePullTry
    \/ WakePullCheckExhausted
    \/ WakePullPredicate
    \/ WakePullBlock
    \/ WakePullPop

WakeProducerSteps ==
    \/ WakeCall
    \/ WakePushCheck
    \/ WakePushQueue
    \/ WakeStore
    \/ WakeFlush
    \/ WakeNotify
    \/ WakeDone

NextWake ==
    \/ WakeConsumerSteps
    \/ WakeProducerSteps
    \/ WakeSpurious

SpecWake == InitWake /\ [][NextWake]_vars

\* both threads keep running; a spurious wake-up may never happen
FairSpecWake ==
    /\ SpecWake
    /\ WF_vars(WakeConsumerSteps)
    /\ WF_vars(WakeProducerSteps)

\* C35: a pull called on an empty LockFreeBuffer that is not exhausted,
\* with a producer that calls push or setExhausted(true) at least once at
\* the same time or later, returns in the end, wherever the producer's
\* steps fall between the consumer's.
C35_NoLostWakeUp == <>(hcons.pc = "returned")

\* the producer has made its calls and will make no other, the predicate
\* of the wait is true, and the consumer is asleep in cv_.wait
C35_AsleepWithPredicateTrue ==
    /\ hprod.pc = "done"
    /\ hcons.pc = "waiting"
    /\ hprod.calls = 1
    /\ hprod.pushed = 1
    /\ ~BLQ_Empty(hch.queue)


(***************************************************************************)
(* SimdAudio::convertToFloat                                               *)
(*                                                                         *)
(* An int16_t is its value; a lane of an __m128i is the unsigned number    *)
(* its bits spell; a float is the real number it denotes, so that of an    *)
(* integer is that integer rounded to 24 significant bits.                 *)
(***************************************************************************)
\* samples converted in one call at most
MaxConvertCount == 17

Word16(v) == v % 2 ^ 16
Int16(x) == IF x % 2 ^ 16 >= 2 ^ 15 THEN (x % 2 ^ 16) - 2 ^ 16 ELSE x % 2 ^ 16

RECURSIVE Float32Ulp(_)
Float32Ulp(n) == IF n < 2 ^ 24 THEN 1 ELSE 2 * Float32Ulp(n \div 2)

\* int to float, round to nearest even
Float32(x) ==
    LET n    == IF x < 0 THEN 0 - x ELSE x
        ulp  == Float32Ulp(n)
        down == (n \div ulp) * ulp
        rest == n - down
        near == IF 2 * rest > ulp \/ (2 * rest = ulp /\ (n \div ulp) % 2 = 1)
                THEN down + ulp ELSE down
    IN  IF x < 0 THEN 0 - near ELSE near

\* the 8 lanes of 16 bits loaded from input + i
mm_loadu_si128(input, i) == [k \in 1 .. 8 |-> Word16(input[i + k])]

\* a lane of 32 bits is written as the signed number its bits spell: the
\* lane whose low half is a[k] and whose high half is b[k]
mm_unpacklo_epi16(a, b) == [k \in 1 .. 4 |-> Int16(b[k]) * 2 ^ 16 + a[k]]
mm_unpackhi_epi16(a, b) == [k \in 1 .. 4 |-> Int16(b[4 + k]) * 2 ^ 16 + a[4 + k]]

\* logical shift, lanes filled with zeroes from the left
mm_srli_epi32(v, count) ==
    [k \in 1 .. 4 |-> IF v[k] >= 0 \/ count = 0 THEN v[k] \div 2 ^ count
                      ELSE (v[k] \div 2 ^ count) + 2 ^ (32 - count)]

\* arithmetic shift, lanes filled with their sign bit from the left
mm_srai_epi32(v, count) == [k \in 1 .. 4 |-> v[k] \div 2 ^ count]

mm_cvtepi32_ps(v) == [k \in 1 .. 4 |-> Float32(v[k])]

vmovl_s16(v) == [k \in 1 .. 4 |-> Int16(v[k])]
vcvtq_f32_s32(v) == [k \in 1 .. 4 |-> Float32(v[k])]

ConvertToFloatScalar(input, count) ==
    [i \in 1 .. count |-> Float32(input[i])]

RECURSIVE ConvertToFloatSSE2Loop(_, _, _, _)
\* the first loop of convertToFloatSSE2 from its test on
ConvertToFloatSSE2Loop(input, output, i, simd_count) ==
    IF i < simd_count
    THEN LET v_int16    == mm_loadu_si128(input, i)
             v_int32_lo == mm_srai_epi32(mm_unpacklo_epi16(v_int16, v_int16), 16)
             v_int32_hi == mm_srai_epi32(mm_unpackhi_epi16(v_int16, v_int16), 16)
             v_float_lo == mm_cvtepi32_ps(v_int32_lo)
             v_float_hi == mm_cvtepi32_ps(v_int32_hi)
         IN  ConvertToFloatSSE2Loop(input,
                 [k \in DOMAIN output |->
                      IF k \in i + 1 .. i + 4 THEN v_float_lo[k - i]
                      ELSE IF k \in i + 5 .. i + 8 THEN v_float_hi[k - i - 4]
                      ELSE output[k]],
                 i + 8, simd_count)
    ELSE output

\* output is the array as the caller left it
ConvertToFloatSSE2(input, output, count) ==
    LET simd_count == count - (count % 8)
        stored     == ConvertToFloatSSE2Loop(input, output, 0, simd_count)
    IN  [k \in DOMAIN output |->
             IF k \in simd_count + 1 .. count THEN Float32(input[k])
             ELSE stored[k]]

RECURSIVE ConvertToFloatNEONLoop(_, _, _, _)
ConvertToFloatNEONLoop(input, output, i, simd_count) ==
    IF i < simd_count
    THEN LET v_int16    == mm_loadu_si128(input, i)
             v_float_lo == vcvtq_f32_s32(vmovl_s16(SubSeq(v_int16, 1, 4)))
             v_float_hi == vcvtq_f32_s32(vmovl_s16(SubSeq(v_int16, 5, 8)))
         IN  ConvertToFloatNEONLoop(input,
                 [k \in DOMAIN output |->
                      IF k \in i + 1 .. i + 4 THEN v_float_lo[k - i]
                      ELSE IF k \in i + 5 .. i + 8 THEN v_float_hi[k - i - 4]
                      ELSE output[k]],
                 i + 8, simd_count)
    ELSE output

ConvertToFloatNEON(input, output, count) ==
    LET simd_count == count - (count % 8)
        stored     == ConvertToFloatNEONLoop(input, output, 0, simd_count)
    IN  [k \in DOMAIN output |->
             IF k \in simd_count + 1 .. count THEN Float32(input[k])
             ELSE stored[k]]

\* std::vector<float>::resize(count): the elements kept, zeroes added
VectorResize(v, count) ==
    [k \in 1 .. count |-> IF k <= Len(v) THEN v[k] ELSE 0]

\* convertToFloat(input, std::vector<float>&, count) as built with
\* __SSE2__, with __ARM_NEON or with neither
SimdConvertToFloat(build, input, output, count) ==
    LET resized == VectorResize(output, count)
    IN  CASE build = "SSE2" -> ConvertToFloatSSE2(input, resized, count)
          [] build = "NEON" -> ConvertToFloatNEON(input, resized, count)
          [] OTHER -> [k \in DOMAIN resized |->
                           IF k <= count THEN ConvertToFloatScalar(input, count)[k]
                           ELSE resized[k]]

\* the first sample of the inputs tried; the samples that follow it in an
\* input count up from it, and from 32767 on to -32768
SimdFirstSamples ==
    {MaxConvertCount * k - 2 ^ 15 : k \in 0 .. (2 ^ 16 - 1) \div MaxConvertCount}

\* lengths of the vector handed in, which the pool returned
SimdOutputSizes == {0, 20}

InitSimd ==
    /\ \E build \in {"SSE2", "NEON", "scalar"}, count \in 0 .. MaxConvertCount,
          first \in SimdFirstSamples, size \in SimdOutputSizes :
           hch = [build |-> build, count |-> count,
                  input |-> [i \in 1 .. count |-> Int16(first + i - 1)],
                  output |-> [k \in 1 .. size |-> 0 - 1]]
    /\ hprod = [pc |-> "convert"]
    /\ hcons = << >>
    /\ DetectorsInit(<< >>)
    /\ PipelineInit(0, MelModelStepFrames, 0, NotStarted)

SimdConvert ==
    /\ hprod.pc = "convert"
    /\ hch' = [hch EXCEPT !.output = SimdConvertToFloat(hch.build, hch.input,
                                                        hch.output, hch.count)]
    /\ hprod' = [pc |-> "converted"]
    /\ UNCHANGED <<hcons, dvars, cfgvars, srcvars, pvars>>

NextSimd == SimdConvert

SpecSimd == InitSimd /\ [][NextSimd]_vars

\* C36: convertToFloat leaves exactly count floats in its output, each
\* equal in value to the int16 sample at its place, sign included and not
\* divided by 32768, and the same as convertToFloatScalar computes, for
\* every count from 0 on, multiples of 8 or not, and every int16 value.
C36_ConversionExact ==
    hprod.pc = "converted" =>
        /\ Len(hch.output) = hch.count
        /\ \A i \in 1 .. hch.count : hch.output[i] = hch.input[i]
        /\ hch.output = ConvertToFloatScalar(hch.input, hch.count)

\* two blocks of 8 and one sample left over, converted by the SSE2 build,
\* from 32760 up through 32767 and -32768 on
C36_Witness ==
    /\ hprod.pc = "converted"
    /\ hch.build = "SSE2"
    /\ hch.count = MaxConvertCount
    /\ hch.count % 8 # 0
    /\ hch.count > 8
    /\ \E i \in 1 .. 8 : hch.input[i] = 32767 /\ hch.input[i + 1] = 0 - 32768
                         /\ hch.output[i + 1] = 0 - 32768

(***************************************************************************)
(* Trigger sufficiency of processPrediction                                *)
(***************************************************************************)
\* whether the window of predictions from .. to of detector d begins out of
\* the refractory phase: no event before it, or at least refractorySteps
\* predictions between the last event and the window
BeginsOutOfRefractory(d, from) ==
    LET s == LastTriggerBefore(d, from)
    IN  s = 0 \/ from - 1 - s >= wwConfig[d].refractorySteps

\* C37: in every window of consecutive predictions of a detector in which
\* the predictions above the threshold outnumber the others by
\* triggerLevel, the detector emits a detection event.
C37_TriggerSufficiency ==
    \A d \in DOMAIN predLog :
        \A from \in 1 .. Len(predLog[d]) : \A to \in from .. Len(predLog[d]) :
            Net(d, from, to) >= wwConfig[d].triggerLevel
                => \E k \in from .. to : k \in FiredAt(d)

\* C37 (amended): ... in every such window that begins out of the
\* refractory phase, that is at the start of the stream or at least
\* refractorySteps predictions after the last event.
C37_TriggerSufficiencyOutOfRefractory ==
    \A d \in DOMAIN predLog :
        \A from \in 1 .. Len(predLog[d]) : \A to \in from .. Len(predLog[d]) :
            (/\ BeginsOutOfRefractory(d, from)
             /\ Net(d, from, to) >= wwConfig[d].triggerLevel)
                => \E k \in from .. to : k \in FiredAt(d)

\* triggerLevel 2, refractorySteps 1: an event at prediction 2, one
\* prediction of refractory phase, then the window 4 .. 7 of three hits
\* and one miss, which ends with the event at 7
C37_Witness ==
    /\ wwConfig[1].triggerLevel = 2
    /\ wwConfig[1].refractorySteps = 1
    /\ predLog[1] = << <<6, FALSE>>, <<6, TRUE>>, <<4, FALSE>>, <<6, FALSE>>,
                      <<4, FALSE>>, <<6, FALSE>>, <<6, TRUE>> >>
    /\ BeginsOutOfRefractory(1, 4)
    /\ Net(1, 4, 7) = 2

(***************************************************************************)
(* A BulkLockFreeQueue driven directly by one producer and one consumer.   *)
(* hch is the queue; the items pushed are 0, 1, 2, ... in push order;      *)
(* hprod holds the calls made and whether a vector of BULK_SIZE items or   *)
(* more was pushed while items were waiting in the producer's buffer;      *)
(* hcons holds the items the consumer has obtained, in the order obtained. *)
(***************************************************************************)
\* calls made on the queue at most
MaxBulkCalls == 5

\* sizes of the vectors pushed and the max_items given to try_pop_bulk
BulkPushSizes == {0, 1, 127, 128, 200}
BulkPopSizes == {1, 100, 1024}

BulkCalled(call, count, bypassed) ==
    hprod' = [hprod EXCEPT !.calls = Append(@, call),
                           !.pushed = @ + count,
                           !.bypassed = @ \/ bypassed]

BulkPushItem ==
    /\ hprod.pc = "bulk"
    /\ Len(hprod.calls) < MaxBulkCalls
    /\ hch' = BLQ_PushItem(hch, hprod.pushed)
    /\ BulkCalled("push(item)", 1, FALSE)
    /\ UNCHANGED <<hcons, dvars, cfgvars, srcvars, pvars>>

BulkPushVector(count) ==
    /\ hprod.pc = "bulk"
    /\ Len(hprod.calls) < MaxBulkCalls
    /\ hch' = BLQ_PushVector(hch, VRun(hprod.pushed, count))
    /\ BulkCalled("push(vector)", count,
                  count >= BULK_SIZE /\ hch.producer # << >>)
    /\ UNCHANGED <<hcons, dvars, cfgvars, srcvars, pvars>>

BulkFlush ==
    /\ hprod.pc = "bulk"
    /\ Len(hprod.calls) < MaxBulkCalls
    /\ hch' = BLQ_Flush(hch)
    /\ BulkCalled("flush", 0, FALSE)
    /\ UNCHANGED <<hcons, dvars, cfgvars, srcvars, pvars>>

BulkTryPop ==
    /\ hprod.pc = "bulk"
    /\ Len(hprod.calls) < MaxBulkCalls
    /\ \E popped \in {BLQ_TryPop(hch)} :
           /\ hch' = popped.q
           /\ hcons' = [hcons EXCEPT !.got = IF popped.ok
                                             THEN VCat(@, VRun(popped.result, 1))
                                             ELSE @]
    /\ BulkCalled("try_pop", 0, FALSE)
    /\ UNCHANGED <<dvars, cfgvars, srcvars, pvars>>

BulkTryPopBulk(max_items) ==
    /\ hprod.pc = "bulk"
    /\ Len(hprod.calls) < MaxBulkCalls
    /\ \E popped \in {BLQ_TryPopBulk(hch, max_items)} :
           /\ hch' = popped.q
           /\ hcons' = [hcons EXCEPT !.got = VCat(@, popped.results)]
    /\ BulkCalled("try_pop_bulk", 0, FALSE)
    /\ UNCHANGED <<dvars, cfgvars, srcvars, pvars>>

InitBulk ==
    /\ hch = BLQ_New
    /\ hprod = [pc |-> "bulk", calls |-> << >>, pushed |-> 0, bypassed |-> FALSE]
    /\ hcons = [got |-> << >>]
    /\ DetectorsInit(<< >>)
    /\ PipelineInit(0, MelModelStepFrames, 0, NotStarted)

NextBulk ==
    \/ BulkPushItem
    \/ \E count \in BulkPushSizes : BulkPushVector(count)
    \/ BulkFlush
    \/ BulkTryPop
    \/ \E max_items \in BulkPopSizes : BulkTryPopBulk(max_items)

SpecBulk == InitBulk /\ [][NextBulk]_vars

\* the items obtained are the first of those pushed, in push order
BulkGotInOrder == hcons.got = VRun(0, VLen(hcons.got))

\* nothing is left in the producer's buffer, in the queue or in the
\* consumer's buffer
BulkDrained == hch.producer = << >> /\ BLQ_Empty(hch)

\* how many times x occurs in v
VCount(v, x) == Cardinality({r \in DOMAIN v : v[r][1] <= x /\ x < v[r][2]})

\* C38: the items the consumer obtains from a BulkLockFreeQueue through
\* try_pop and try_pop_bulk come out in the order they were pushed by
\* push(item), push(vector) and flush, whatever the sizes of the vectors,
\* and once everything is flushed and popped every item pushed has come
\* out, once.
C38_FifoOrder ==
    /\ BulkGotInOrder
    /\ BulkDrained => VLen(hcons.got) = hprod.pushed

\* what does hold: no item is lost or duplicated, and the order is kept as
\* long as no vector of BULK_SIZE items or more was pushed while the
\* producer's buffer held unflushed items
BulkNothingLostOrDuplicated ==
    /\ \A x \in 0 .. hprod.pushed - 1 : VCount(hcons.got, x) <= 1
    /\ BulkDrained => \A x \in 0 .. hprod.pushed - 1 : VCount(hcons.got, x) = 1
    /\ ~hprod.bypassed => BulkGotInOrder

\* push(item) of item 0, push of the vector of items 1 .. 128, try_pop:
\* the consumer obtains item 1 while item 0 is still in the producer's
\* buffer
C38_LargeVectorOvertakes ==
    /\ hprod.calls = <<"push(item)", "push(vector)", "try_pop">>
    /\ hprod.pushed = 1 + BULK_SIZE
    /\ hcons.got = VRun(1, 1)
    /\ hch.producer = VRun(0, 1)

(***************************************************************************)
(* A LockFreeQueue driven directly: push and try_pop calls, then its       *)
(* destructor.  hch is the queue with its heap, hprod the calls made,      *)
(* hcons the items try_pop has handed out.                                 *)
(***************************************************************************)
\* calls of push and try_pop made before the queue is destroyed, at most
MaxQueueCalls == 6

QueuePush ==
    /\ hprod.pc = "queue"
    /\ Len(hprod.calls) < MaxQueueCalls
    /\ hch' = LFQ_Push(hch, Len(hch.items))
    /\ hprod' = [hprod EXCEPT !.calls = Append(@, "push")]
    /\ UNCHANGED <<hcons, dvars, cfgvars, srcvars, pvars>>

QueueTryPop ==
    /\ hprod.pc = "queue"
    /\ Len(hprod.calls) < MaxQueueCalls
    /\ \E popped \in {LFQ_TryPop(hch, 0 - 1)} :
           /\ hch' = popped.q
           /\ hcons' = [hcons EXCEPT !.got = IF popped.ok
                                             THEN Append(@, popped.result)
                                             ELSE @]
    /\ hprod' = [hprod EXCEPT !.calls = Append(@, "try_pop")]
    /\ UNCHANGED <<dvars, cfgvars, srcvars, pvars>>

QueueDestroy ==
    /\ hprod.pc = "queue"
    /\ hch' = LFQ_Destroy(hch)
    /\ hprod' = [hprod EXCEPT !.pc = "destroyed"]
    /\ UNCHANGED <<hcons, dvars, cfgvars, srcvars, pvars>>

InitQueue ==
    /\ hch = LFQ_New
    /\ hprod = [pc |-> "queue", calls |-> << >>]
    /\ hcons = [got |-> << >>]
    /\ DetectorsInit(<< >>)
    /\ PipelineInit(0, MelModelStepFrames, 0, NotStarted)

NextQueue ==
    \/ QueuePush
    \/ QueueTryPop
    \/ QueueDestroy

SpecQueue == InitQueue /\ [][NextQueue]_vars

\* C39: once a LockFreeQueue on which push and try_pop were called is
\* destroyed, every item allocated by push and every node has been
\* deleted exactly once, by try_pop or by the destructor.
C39_EachDeletedOnce ==
    hprod.pc = "destroyed" =>
        /\ \A d \in DOMAIN hch.items : hch.items[d].deleted = 1
        /\ \A n \in DOMAIN hch.nodes : hch.nodes[n].deleted = 1

\* what does hold: try_pop hands the items out in push order; before the
\* destructor nothing is deleted twice; after it every node was deleted
\* once, no item is left, and only the item popped last was deleted twice
QueueDeletesButForLastPopped ==
    /\ hcons.got = [i \in 1 .. Len(hcons.got) |-> i - 1]
    /\ hprod.pc = "queue" =>
           /\ \A d \in DOMAIN hch.items :
                  hch.items[d].deleted = (IF d <= Len(hcons.got) THEN 1 ELSE 0)
           /\ \A n \in DOMAIN hch.nodes :
                  hch.nodes[n].deleted = (IF n <= Len(hcons.got) THEN 1 ELSE 0)
    /\ hprod.pc = "destroyed" =>
           /\ \A n \in DOMAIN hch.nodes : hch.nodes[n].deleted = 1
           /\ \A d \in DOMAIN hch.items :
                  hch.items[d].deleted = (IF d = Len(hcons.got) THEN 2 ELSE 1)

\* push, try_pop, destructor: try_pop deleted the item and left the node
\* that held it as the head, its data pointer unchanged; the destructor
\* deleted the item again
C39_DeletedTwice ==
    /\ hprod.pc = "destroyed"
    /\ hprod.calls = <<"push", "try_pop">>
    /\ hcons.got = <<0>>
    /\ hch.items[1].deleted = 2
    /\ hch.nodes[2].data = 1

=============================================================================
